---- MODULE Spec2Model ----
(***************************************************************************)
(* A model of src/service.py: the counselling-recommendation service.      *)
(*                                                                         *)
(* Three specifications share the variables below.                         *)
(*   Spec         the life cycle of the process: start-up, /train (one     *)
(*                thread per request, interleaved at its three slot        *)
(*                assignments), /status, /analyze, and a restart of the    *)
(*                process, which keeps the .pkl files and nothing else.    *)
(*   SpecAnalyze  one /analyze request against every serving state the     *)
(*                catalogue and the slot can be in, over a wide set of     *)
(*                request bodies and model outputs.                        *)
(*   SpecDyn      calculate_personalized_features_flask as a function of   *)
(*                its three arguments.                                     *)
(*                                                                         *)
(* Numbers that are floats in the program are exact fractions <<n, d>>     *)
(* here (d > 0), compared by cross-multiplication.                         *)
(***************************************************************************)
EXTENDS Integers, Sequences, FiniteSets, TLC

VARIABLES
    phase,                  \* "start" until __main__ has run, then "serving"
    ml_models,              \* the slot: risk_model, category_model, risk_encoder
    files,                  \* risk_model.pkl, category_model.pkl, risk_encoder.pkl
    MEAI_CATEGORIES,        \* sequence of category names
    MEAI_QUESTIONS,         \* per category, in order, its questions' sub-question counts
    MEAI_QUESTION_MAPPING,  \* question ordinal -> category id (a sequence)
    train_threads,          \* one record per /train request
    call,                   \* SpecDyn: the arguments of the function applied
    response,               \* the response of the handler that returned last
    previous                \* SpecRepeat: the response to the same request sent before

vars == <<phase, ml_models, files, MEAI_CATEGORIES, MEAI_QUESTIONS,
          MEAI_QUESTION_MAPPING, train_threads, call, response, previous>>

catalog == <<MEAI_CATEGORIES, MEAI_QUESTIONS, MEAI_QUESTION_MAPPING>>

----------------------------------------------------------------------------
(* Bounds *)

MaxTrains == 2      \* /train requests over the whole run
MaxLen == 4         \* longest partner response sequence drawn in SpecDyn
MaxQLen == 2        \* longest combined questionnaire drawn in SpecDyn
MaxRawLen == 2      \* longest partner sequence of unvalidated numbers in SpecDyn

----------------------------------------------------------------------------
(* Fractions *)

Frac(n, d) == <<n, d>>
FLt(a, b) == a[1] * b[2] < b[1] * a[2]
FLe(a, b) == a[1] * b[2] <= b[1] * a[2]
FGt(a, b) == FLt(b, a)
FGe(a, b) == FLe(b, a)
FEq(a, b) == a[1] * b[2] = b[1] * a[2]
FAdd(a, b) == <<a[1] * b[2] + b[1] * a[2], a[2] * b[2]>>

RECURSIVE SumSeq(_)
SumSeq(s) == IF s = <<>> THEN 0 ELSE Head(s) + SumSeq(Tail(s))

Min2(a, b) == IF a < b THEN a ELSE b
Abs(x) == IF x < 0 THEN -x ELSE x
Repeat(x, n) == [i \in 1..n |-> x]

----------------------------------------------------------------------------
(* The model slot and the artifact files *)

ArtifactNames == <<"risk_model", "category_model", "risk_encoder">>

\* Python's None in a slot entry, and a .pkl file that does not exist.
NoArtifact == [gen |-> 0, n_features |-> 0, n_outputs |-> 0]

EmptySlot == [risk_model |-> NoArtifact, category_model |-> NoArtifact,
              risk_encoder |-> NoArtifact]

\* The server is up: app.run has been reached and handlers can run.
Serving == phase = "serving"

----------------------------------------------------------------------------
(* The catalogue *)

FallbackCategories ==
    <<"Marriage And Relationship", "Responsible Parenthood",
      "Planning The Family", "Maternal Neonatal Child Health And Nutrition">>

FallbackQuestions ==
    << [cat |-> 1, subs |-> <<0>>], [cat |-> 2, subs |-> <<0>>],
       [cat |-> 3, subs |-> <<0>>], [cat |-> 4, subs |-> <<0>>] >>

\* What the database can answer when the catalogue is read: the queries
\* raise (ok is FALSE), the tables are empty, or the tables are populated.
\* categories are the short names the question_category rows give (the text
\* after " ON ", title-cased); questions are the question_assessment rows
\* grouped as load_questions_from_db groups them: per category, the
\* sub-question count of each of its questions.
DbOutcomes ==
    { [ok |-> FALSE, categories |-> <<>>, questions |-> <<>>],
      [ok |-> TRUE, categories |-> <<>>, questions |-> <<>>],
      [ok |-> TRUE,
       categories |-> <<"Marriage And Relationship", "Planning The Family">>,
       questions |-> << [cat |-> 1, subs |-> <<2>>], [cat |-> 2, subs |-> <<0>>] >>] }

load_categories_from_db(db) ==
    IF db.ok THEN db.categories ELSE FallbackCategories

\* The ordinals one question contributes: one per sub-question, or one.
Answerable(n_subs) == IF n_subs > 0 THEN n_subs ELSE 1

RECURSIVE MapQuestions(_, _)
MapQuestions(cat_id, subs) ==
    IF subs = <<>> THEN <<>>
    ELSE Repeat(cat_id, Answerable(Head(subs))) \o MapQuestions(cat_id, Tail(subs))

RECURSIVE BuildMapping(_)
BuildMapping(questions) ==
    IF questions = <<>> THEN <<>>
    ELSE MapQuestions(Head(questions).cat, Head(questions).subs)
             \o BuildMapping(Tail(questions))

\* <<MEAI_QUESTIONS, MEAI_QUESTION_MAPPING>> after the call.
load_questions_from_db(db) ==
    IF db.ok
    THEN <<db.questions, BuildMapping(db.questions)>>
    ELSE <<FallbackQuestions, <<1, 2, 3, 4>>>>

\* len(MEAI_QUESTION_MAPPING) if MEAI_QUESTION_MAPPING else 31
FallbackQuestionCount == 31
TotalQuestions(mapping) ==
    IF Len(mapping) > 0 THEN Len(mapping) ELSE FallbackQuestionCount

----------------------------------------------------------------------------
(* load_ml_models: each blob that exists is unpickled and assigned, in       *)
(* order; an unpickling error ends the call with the earlier assignments     *)
(* kept.  fail_at names the blob whose unpickling raises, or "none".         *)

RECURSIVE LoadFrom(_, _, _, _)
LoadFrom(i, slot, disk, fail_at) ==
    IF i > Len(ArtifactNames) THEN slot
    ELSE LET name == ArtifactNames[i] IN
         IF disk[name] = NoArtifact THEN LoadFrom(i + 1, slot, disk, fail_at)
         ELSE IF fail_at = name THEN slot
         ELSE LoadFrom(i + 1, [slot EXCEPT ![name] = disk[name]], disk, fail_at)

load_ml_models(slot, disk, fail_at) == LoadFrom(1, slot, disk, fail_at)

FailPoints == {"none", "risk_model", "category_model", "risk_encoder"}

----------------------------------------------------------------------------
(* calculate_personalized_features_flask, lines 25-117 *)

\* s[:k] and s[k:] of Python, k counted from 0
Take(s, k) == SubSeq(s, 1, Min2(k, Len(s)))
Drop(s, k) == SubSeq(s, Min2(k, Len(s)) + 1, Len(s))

\* Lines 29-46: the two partner sequences and the pooled one.  The partner
\* sequences are used when both are non-empty; otherwise the combined
\* questionnaire is split in half (or used for both when shorter than 2).
PartnerSplit(questionnaire_responses, male_responses, female_responses) ==
    IF Len(male_responses) > 0 /\ Len(female_responses) > 0
    THEN [male |-> male_responses, female |-> female_responses,
          all_responses |-> male_responses \o female_responses]
    ELSE IF Len(questionnaire_responses) >= 2
    THEN LET mid_point == Len(questionnaire_responses) \div 2
         IN [male |-> Take(questionnaire_responses, mid_point),
             female |-> Drop(questionnaire_responses, mid_point),
             all_responses |-> questionnaire_responses]
    ELSE [male |-> questionnaire_responses, female |-> questionnaire_responses,
          all_responses |-> questionnaire_responses]

\* A weight that tells the partners apart: a neutral man against a
\* disagreeing woman weighs 0.6, the reverse 0.4.
ConflictWeightBySide(male_resp, female_resp) ==
    LET difference == Abs(male_resp - female_resp) IN
    IF difference >= 2 THEN 10
    ELSE IF difference = 1
    THEN IF male_resp = 3 /\ female_resp \in {2, 4} THEN 6 ELSE 4
    ELSE 0

\* Lines 67-78, in tenths: the weight one pair adds to weighted_conflict_sum.
ConflictWeight(male_resp, female_resp) ==
    LET difference == Abs(male_resp - female_resp) IN
    IF difference >= 2 THEN 10
    ELSE IF difference = 1
    THEN IF (male_resp = 3 /\ female_resp = 2) \/ (male_resp = 2 /\ female_resp = 3)
         THEN 6
         ELSE IF (male_resp = 4 /\ female_resp = 3) \/ (male_resp = 3 /\ female_resp = 4)
         THEN 4
         ELSE 5
    ELSE 0

\* The distance of one pair instead of its closeness.
AlignmentDistance(male_resp, female_resp) == Abs(male_resp - female_resp)

\* Line 60, in quarters: what one pair adds to alignment_score.
AlignmentTerm(male_resp, female_resp) == 4 - Abs(male_resp - female_resp)

\* Line 80
AlignmentScore(m, f) ==
    LET total_questions == Min2(Len(m), Len(f)) IN
    IF total_questions > 0
    THEN Frac(SumSeq([i \in 1..total_questions |-> AlignmentTerm(m[i], f[i])]),
              4 * total_questions)
    ELSE Frac(1, 2)

\* Line 81
ConflictRatio(m, f) ==
    LET total_questions == Min2(Len(m), Len(f)) IN
    IF total_questions > 0
    THEN Frac(SumSeq([i \in 1..total_questions |-> ConflictWeight(m[i], f[i])]),
              10 * total_questions)
    ELSE Frac(0, 1)

\* Lines 67-68
ConflictCount(m, f) ==
    Cardinality({i \in 1..Min2(Len(m), Len(f)) : Abs(m[i] - f[i]) >= 2})

\* The mean without the default for an empty sequence.
AverageUnguarded(responses) == Frac(SumSeq(responses), Len(responses))

\* Lines 84-85
Average(responses) ==
    IF Len(responses) > 0 THEN Frac(SumSeq(responses), Len(responses)) ELSE Frac(3, 1)

\* sum((r - mean) ** 2) / len(responses) = (n * sum(r^2) - sum(r)^2) / n^2
Variance(responses) ==
    LET n == Len(responses)
        sq == SumSeq([i \in 1..n |-> responses[i] * responses[i]])
        sm == SumSeq(responses)
    IN Frac(n * sq - sm * sm, n * n)

\* A consistency that subtracts the variance itself.
calculate_consistency_unscaled(responses) ==
    IF Len(responses) < 2 THEN Frac(1, 1)
    ELSE LET v == Variance(responses)
             c == Frac(v[2] - v[1], v[2])
         IN IF c[1] < 0 THEN Frac(0, 1) ELSE c

\* Lines 88-93: max(0, 1 - variance / 4)
calculate_consistency(responses) ==
    IF Len(responses) < 2 THEN Frac(1, 1)
    ELSE LET v == Variance(responses)
             c == Frac(4 * v[2] - v[1], 4 * v[2])
         IN IF c[1] < 0 THEN Frac(0, 1) ELSE c

\* The ratio without the guard.
PowerBalanceUnguarded(male_avg, female_avg) ==
    Frac(male_avg[1] * female_avg[2], male_avg[2] * female_avg[1])

\* Line 99
PowerBalance(male_avg, female_avg) ==
    IF female_avg[1] > 0
    THEN Frac(male_avg[1] * female_avg[2], male_avg[2] * female_avg[1])
    ELSE Frac(1, 1)

\* Lines 102-105
ResponseVariance(all_responses) ==
    IF Len(all_responses) > 1 THEN Variance(all_responses) ELSE Frac(0, 1)

calculate_personalized_features_flask(questionnaire_responses, male_responses, female_responses) ==
    LET p == PartnerSplit(questionnaire_responses, male_responses, female_responses)
    IN [alignment_score     |-> AlignmentScore(p.male, p.female),
        conflict_ratio      |-> ConflictRatio(p.male, p.female),
        male_avg_response   |-> Average(p.male),
        female_avg_response |-> Average(p.female),
        male_consistency    |-> calculate_consistency(p.male),
        female_consistency  |-> calculate_consistency(p.female),
        power_balance       |-> PowerBalance(Average(p.male), Average(p.female)),
        response_variance   |-> ResponseVariance(p.all_responses),
        total_conflicts     |-> ConflictCount(p.male, p.female)]


----------------------------------------------------------------------------
(* Recommendation text.  A recommendation is modelled by the fixed head of   *)
(* its template (the words before the first interpolated value).             *)

\* The words of a category name that the generators look for with `in`.
NameWords(name) ==
    CASE name = "Marriage And Relationship" -> {"Marriage", "Relationship"}
      [] name = "Responsible Parenthood" -> {"Responsible", "Parenthood"}
      [] name = "Planning The Family" -> {"Planning", "Family"}
      [] name = "Maternal Neonatal Child Health And Nutrition" ->
             {"Maternal", "Neonatal", "Child Health", "Health"}
      [] OTHER -> {}

\* Stable sort by score, highest first: sorted(..., key=score, reverse=True)
RECURSIVE InsertByScore(_, _)
InsertByScore(sorted, x) ==
    IF sorted = <<>> THEN <<x>>
    ELSE IF FGt(x.score, Head(sorted).score) THEN <<x>> \o sorted
    ELSE <<Head(sorted)>> \o InsertByScore(Tail(sorted), x)

RECURSIVE SortByScoreDesc(_)
SortByScoreDesc(s) ==
    IF s = <<>> THEN <<>>
    ELSE InsertByScore(SortByScoreDesc(SubSeq(s, 1, Len(s) - 1)), s[Len(s)])

CountIf(s, v) == Cardinality({i \in 1..Len(s) : s[i] >= v})

\* Lines 1359-1384: the entry one focus category adds, if any.
CategoryCommentary(category) ==
    LET score == category.score
        words == NameWords(category.name)
        topic == IF "Marriage" \in words THEN "MARRIAGE"
                 ELSE IF "Family" \in words THEN "FAMILY"
                 ELSE IF "Health" \in words THEN "HEALTH" ELSE ""
    IN IF topic = "" THEN <<>>
       ELSE IF FGt(score, Frac(7, 10)) THEN <<"CRITICAL " \o topic>>
       ELSE IF FGt(score, Frac(5, 10)) THEN <<"HIGH " \o topic>>
       ELSE IF FGt(score, Frac(3, 10)) THEN <<"MODERATE " \o topic>>
       ELSE <<>>

RECURSIVE AllCategoryCommentary(_)
AllCategoryCommentary(focus_categories) ==
    IF focus_categories = <<>> THEN <<>>
    ELSE CategoryCommentary(Head(focus_categories))
             \o AllCategoryCommentary(Tail(focus_categories))

\* Lines 1349-1357
RiskProfileEntries(risk_level, conflict_ratio) ==
    IF risk_level = "High"
    THEN <<"HIGH RISK PROFILE">>
             \o (IF FGt(conflict_ratio, Frac(4, 10)) THEN <<"CRISIS INTERVENTION">> ELSE <<>>)
    ELSE IF risk_level = "Medium" THEN <<"MEDIUM RISK PROFILE">>
    ELSE <<"LOW RISK PROFILE">>

\* Lines 1268-1278: the shares of answers of 4 or more, each over the
\* number of the man's answers, and their mean.
CoupleDynamics(male_responses, female_responses) ==
    LET male_agree_count == CountIf(male_responses, 4)
        female_agree_count == CountIf(female_responses, 4)
        total_responses == Len(male_responses)
        male_positive_ratio ==
            IF total_responses > 0 THEN Frac(male_agree_count, total_responses)
            ELSE Frac(0, 1)
        female_positive_ratio ==
            IF total_responses > 0 THEN Frac(female_agree_count, total_responses)
            ELSE Frac(0, 1)
        s == FAdd(male_positive_ratio, female_positive_ratio)
    IN [male_positive_ratio |-> male_positive_ratio,
        female_positive_ratio |-> female_positive_ratio,
        couple_optimism |-> Frac(s[1], 2 * s[2])]

\* Lines 1254-1396
generate_rule_based_recommendations(risk_level, category_scores, focus_categories, personalized_features, male_responses, female_responses) ==
    LET alignment_score == personalized_features.alignment_score
        conflict_ratio == personalized_features.conflict_ratio
        male_avg == personalized_features.male_avg_response
        female_avg == personalized_features.female_avg_response
        male_consistency == personalized_features.male_consistency
        female_consistency == personalized_features.female_consistency
        power_balance == personalized_features.power_balance
        response_variance == personalized_features.response_variance
        dynamics == CoupleDynamics(male_responses, female_responses)
        male_positive_ratio == dynamics.male_positive_ratio
        female_positive_ratio == dynamics.female_positive_ratio
        couple_optimism == dynamics.couple_optimism
        alignment ==
            IF FLt(alignment_score, Frac(3, 10)) THEN <<"CRITICAL ALIGNMENT">>
            ELSE IF FLt(alignment_score, Frac(5, 10)) THEN <<"SIGNIFICANT DISAGREEMENT">>
            ELSE IF FLt(alignment_score, Frac(7, 10)) THEN <<"MODERATE ALIGNMENT">>
            ELSE <<"STRONG ALIGNMENT">>
        optimism ==
            IF FGt(couple_optimism, Frac(7, 10)) THEN <<"EXCELLENT HARMONY">>
            ELSE IF FGt(couple_optimism, Frac(5, 10)) THEN <<"GOOD HARMONY">>
            ELSE IF FGt(couple_optimism, Frac(3, 10)) THEN <<"MODERATE HARMONY">>
            ELSE <<"CONCERNING HARMONY">>
        conflict ==
            IF FGt(conflict_ratio, Frac(5, 10)) THEN <<"HIGH CONFLICT">>
            ELSE IF FGt(conflict_ratio, Frac(3, 10)) THEN <<"MODERATE CONFLICT">>
            ELSE IF FGt(conflict_ratio, Frac(1, 10)) THEN <<"MINOR CONFLICTS">>
            ELSE <<"EXCELLENT HARMONY">>
        power ==
            IF (FGt(power_balance, Frac(15, 10)) \/ FLt(power_balance, Frac(3, 10)))
                   /\ FLt(alignment_score, Frac(8, 10))
            THEN IF FGt(male_avg, female_avg) THEN <<"MALE DOMINANCE">>
                 ELSE <<"FEMALE DOMINANCE">>
            ELSE IF FGe(power_balance, Frac(7, 10)) /\ FLe(power_balance, Frac(13, 10))
            THEN <<"BALANCED PARTNERSHIP">>
            ELSE <<>>
        male_analysis ==
            IF FLt(male_consistency, Frac(3, 10)) THEN <<"MALE INCONSISTENCY">>
            ELSE IF FLt(male_consistency, Frac(6, 10)) THEN <<"MALE UNCERTAINTY">>
            ELSE <<"MALE CLARITY">>
        female_analysis ==
            IF FLt(female_consistency, Frac(3, 10)) THEN <<"FEMALE INCONSISTENCY">>
            ELSE IF FLt(female_consistency, Frac(6, 10)) THEN <<"FEMALE UNCERTAINTY">>
            ELSE <<"FEMALE CLARITY">>
        male_pattern ==
            IF FGt(male_positive_ratio, Frac(7, 10)) THEN <<"MALE POSITIVE">>
            ELSE IF FLt(male_positive_ratio, Frac(3, 10)) THEN <<"MALE CONCERNS">>
            ELSE <<>>
        female_pattern ==
            IF FGt(female_positive_ratio, Frac(7, 10)) THEN <<"FEMALE POSITIVE">>
            ELSE IF FLt(female_positive_ratio, Frac(3, 10)) THEN <<"FEMALE CONCERNS">>
            ELSE <<>>
        variance ==
            IF FGt(response_variance, Frac(25, 10)) THEN <<"COMPLEX DYNAMICS">>
            ELSE IF FGt(response_variance, Frac(15, 10)) THEN <<"VARIED RESPONSES">>
            ELSE IF FGt(response_variance, Frac(5, 10)) THEN <<"BALANCED DIVERSITY">>
            ELSE <<"CONSISTENT PATTERNS">>
    IN alignment \o optimism \o conflict \o power \o male_analysis \o female_analysis
           \o male_pattern \o female_pattern
           \o RiskProfileEntries(risk_level, conflict_ratio)
           \o AllCategoryCommentary(focus_categories) \o variance

\* A generator whose second except clause reports the failure instead of
\* falling back.
generate_personalized_recommendations_reporting(nlg, nlg_result, risk_level, category_scores, focus_categories, personalized_features, male_responses, female_responses) ==
    IF nlg = "ok" THEN nlg_result
    ELSE IF nlg = "exception" THEN <<"NLG Error">>
    ELSE generate_rule_based_recommendations(risk_level, category_scores,
             focus_categories, personalized_features, male_responses, female_responses)

\* Lines 1224-1252.  nlg is what the external engine does: "ok" (it returns
\* nlg_result), "import_error" (the module is not installed) or "exception".
generate_personalized_recommendations(nlg, nlg_result, risk_level, category_scores, focus_categories, personalized_features, male_responses, female_responses) ==
    IF nlg = "ok" THEN nlg_result
    ELSE generate_rule_based_recommendations(risk_level, category_scores,
             focus_categories, personalized_features, male_responses, female_responses)

NlgOutcomes == {"ok", "import_error", "exception"}
NlgResult == <<"NLG RECOMMENDATION">>


----------------------------------------------------------------------------
(* generate_ml_recommendations, lines 933-1023 *)

\* zip(MEAI_CATEGORIES, category_scores)
ZipCategories(categories, category_scores) ==
    [i \in 1..Min2(Len(categories), Len(category_scores)) |->
        [name |-> categories[i], score |-> category_scores[i]]]

\* Lines 957-966: the four-level priority of a score above 0.2
FourLevelPriority(score) ==
    IF FGt(score, Frac(7, 10)) THEN "Critical"
    ELSE IF FGt(score, Frac(4, 10)) THEN "High"
    ELSE IF FGt(score, Frac(2, 10)) THEN "Moderate"
    ELSE "Low"

\* Lines 974-997: the recommendations one category above 0.2 adds.
MlCategoryRecommendations(category, has_children) ==
    LET words == NameWords(category.name) IN
    IF "Marriage" \in words /\ "Relationship" \in words
    THEN (IF FGt(category.score, Frac(7, 10))
          THEN <<"High priority: Strengthen marriage expectations">> ELSE <<>>)
             \o <<"Focus on partnership quality">>
    ELSE IF "Responsible" \in words /\ "Parenthood" \in words
    THEN (IF has_children THEN <<"Address responsible parenting">> ELSE <<>>)
             \o <<"Strengthen family planning knowledge">>
    ELSE IF "Planning" \in words /\ "Family" \in words
    THEN <<"Develop comprehensive family planning strategy",
           "Focus on family size decisions">>
    ELSE IF "Maternal" \in words \/ "Neonatal" \in words \/ "Child Health" \in words
    THEN <<"Prioritize maternal and child health education">>
             \o (IF has_children THEN <<"Address nutrition and health needs">>
                 ELSE <<"Prepare knowledge on prenatal care">>)
    ELSE <<>>

RECURSIVE MlCategoryLoop(_, _)
MlCategoryLoop(category_priorities, has_children) ==
    IF category_priorities = <<>>
    THEN [recommendations |-> <<>>, focus_categories |-> <<>>]
    ELSE LET c == Head(category_priorities)
             rest == MlCategoryLoop(Tail(category_priorities), has_children)
         IN IF FGt(c.score, Frac(2, 10))
            THEN [recommendations |->
                      MlCategoryRecommendations(c, has_children) \o rest.recommendations,
                  focus_categories |->
                      <<[name |-> c.name, score |-> c.score,
                         priority |-> FourLevelPriority(c.score)]>>
                          \o rest.focus_categories]
            ELSE rest

\* Lines 999-1005
MlRiskHeadline(risk_level) ==
    IF risk_level = "High" THEN "URGENT: ML risk assessment indicates high priority"
    ELSE IF risk_level = "Medium" THEN "ML analysis suggests moderate intervention"
    ELSE "ML prediction shows positive relationship indicators"

generate_ml_recommendations(couple_profile, risk_level, category_scores, categories) ==
    LET category_priorities == SortByScoreDesc(ZipCategories(categories, category_scores))
        loop == MlCategoryLoop(category_priorities, couple_profile.past_children)
        age_gap == Abs(couple_profile.male_age - couple_profile.female_age)
        age == IF age_gap > 10 THEN <<"Consider age difference dynamics">> ELSE <<>>
        civil ==
            IF couple_profile.civil_status = "Living In"
                   /\ couple_profile.years_living_together > 5
            THEN <<"Long-term cohabitation">>
            ELSE IF couple_profile.civil_status \in {"Widowed", "Separated", "Divorced"}
            THEN <<"Previous relationship experience">>
            ELSE <<>>
        recommendations ==
            <<MlRiskHeadline(risk_level)>> \o loop.recommendations \o age \o civil
    IN [recommendations |-> Take(recommendations, 8),
        focus_categories |-> loop.focus_categories]

----------------------------------------------------------------------------
(* /analyze, lines 1060-1213 *)

\* The profile with every field as the request sent it.
CoupleProfileAsSent(data) ==
    [male_age |-> data.male_age,
     female_age |-> data.female_age,
     civil_status |-> data.civil_status,
     years_living_together |-> data.years_living_together,
     past_children |-> data.past_children,
     children |-> data.children,
     education_level |-> data.education_level,
     income_level |-> data.income_level]

\* Lines 1066-1084: the profile, with the two conditional fields reset.
CoupleProfile(data) ==
    [male_age |-> data.male_age,
     female_age |-> data.female_age,
     civil_status |-> data.civil_status,
     years_living_together |->
         IF data.civil_status # "Living In" THEN 0 ELSE data.years_living_together,
     past_children |-> data.past_children,
     children |-> IF ~data.past_children THEN 0 ELSE data.children,
     education_level |-> data.education_level,
     income_level |-> data.income_level]

\* Lines 1087-1088: the responses of the request, or 3 for every question
\* when the request has none.
QuestionnaireResponses(data, mapping) ==
    IF data.has_questionnaire_responses THEN data.questionnaire_responses
    ELSE Repeat(3, TotalQuestions(mapping))

\* Lines 1091-1102
PersonalizedFeatures(data, questionnaire_responses) ==
    IF data.has_personalized_features THEN data.personalized_features
    ELSE calculate_personalized_features_flask(
             questionnaire_responses, data.male_responses, data.female_responses)

\* Lines 1105-1126: the vector handed to both models.  Whole numbers are
\* fractions over 1, as every entry is a float in the array.
Features(couple_profile, questionnaire_responses, personalized_features) ==
    << Frac(couple_profile.male_age, 1),
       Frac(couple_profile.female_age, 1),
       Frac(couple_profile.years_living_together, 1),
       Frac(couple_profile.children, 1),
       Frac(couple_profile.education_level, 1),
       Frac(couple_profile.income_level, 1) >>
    \o [i \in 1..Len(questionnaire_responses) |-> Frac(questionnaire_responses[i], 1)]
    \o << personalized_features.alignment_score,
          personalized_features.conflict_ratio,
          personalized_features.male_avg_response,
          personalized_features.female_avg_response,
          personalized_features.male_consistency,
          personalized_features.female_consistency,
          personalized_features.power_balance,
          personalized_features.response_variance >>

\* A priority graded on the thresholds 0.7 and 0.4.
ThreeLevelPriorityShifted(score) ==
    IF FGt(score, Frac(7, 10)) THEN "High"
    ELSE IF FGt(score, Frac(4, 10)) THEN "Moderate"
    ELSE "Low"

\* Lines 1168-1173: the three-level priority shown to the user
ThreeLevelPriority(score) ==
    IF FGt(score, Frac(6, 10)) THEN "High"
    ELSE IF FGt(score, Frac(3, 10)) THEN "Moderate"
    ELSE "Low"

\* Lines 1161-1181
FocusCategories(categories, category_scores) ==
    [i \in 1..Min2(Len(categories), Len(category_scores)) |->
        [name |-> categories[i], score |-> category_scores[i],
         priority |-> ThreeLevelPriority(category_scores[i])]]

RiskLevels == <<"Low", "Medium", "High">>

SuccessKeys ==
    {"status", "couple_id", "risk_level", "category_scores", "focus_categories",
     "recommendations", "ml_confidence", "risk_reasoning", "counseling_reasoning",
     "analysis_method", "generated_at"}

\* A handler that guards the risk model only.
RefusalRiskModelOnly(slot, width) ==
    IF slot.risk_model = NoArtifact THEN "Risk model not loaded"
    ELSE IF width # slot.risk_model.n_features THEN "Analysis error"
    ELSE ""

\* A handler that asks for the encoder as well.
RefusalWithoutEncoder(slot, width) ==
    IF slot.risk_model = NoArtifact \/ slot.risk_encoder = NoArtifact
    THEN "Risk model not loaded"
    ELSE IF width # slot.risk_model.n_features THEN "Analysis error"
    ELSE IF slot.category_model = NoArtifact THEN "Category model not loaded"
    ELSE IF width # slot.category_model.n_features THEN "Analysis error"
    ELSE ""

\* Lines 1131-1155: why the handler gives up on a vector of this width, or
\* "" when it goes on.  predict raises when the vector is not as wide as the
\* rows the model was fitted on, and the handler's except clause (lines
\* 1209-1213) turns that into an error response.
Refusal(slot, width) ==
    IF slot.risk_model = NoArtifact THEN "Risk model not loaded"
    ELSE IF width # slot.risk_model.n_features THEN "Analysis error"
    ELSE IF slot.category_model = NoArtifact THEN "Category model not loaded"
    ELSE IF width # slot.category_model.n_features THEN "Analysis error"
    ELSE ""

----------------------------------------------------------------------------
(* The two reasoning strings.  A string is modelled by its head and the      *)
(* parts joined with "; ", a part by the fixed words of its template and     *)
(* the category names it lists.                                              *)

Part(text) == [text |-> text, names |-> <<>>]

\* Lines 1402-1453: the parts generate_risk_reasoning collects, in order.
RiskReasoningParts(couple_profile, personalized_features) ==
    LET age_gap == Abs(couple_profile.male_age - couple_profile.female_age)
        years_together == couple_profile.years_living_together
        alignment_score == personalized_features.alignment_score
        conflict_ratio == personalized_features.conflict_ratio
        age ==
            IF age_gap > 10 THEN <<Part("Significant age gap")>>
            ELSE IF age_gap > 5 THEN <<Part("Moderate age gap")>>
            ELSE <<Part("Minimal age gap")>>
        civil ==
            IF couple_profile.civil_status = "Living In"
            THEN IF years_together > 5 THEN <<Part("Long-term cohabitation")>>
                 ELSE IF years_together > 0 THEN <<Part("Recent cohabitation")>>
                 ELSE <<>>
            ELSE IF couple_profile.civil_status \in {"Widowed", "Separated", "Divorced"}
            THEN <<Part("Previous relationship experience")>>
            ELSE <<>>
        children ==
            IF couple_profile.past_children /\ couple_profile.children > 0
            THEN <<Part("Parenting experience")>> ELSE <<>>
        alignment ==
            IF FGt(alignment_score, Frac(7, 10)) THEN <<Part("High alignment")>>
            ELSE IF FLt(alignment_score, Frac(4, 10)) THEN <<Part("Low alignment")>>
            ELSE <<Part("Moderate alignment")>>
        conflict ==
            IF FGt(conflict_ratio, Frac(3, 10)) THEN <<Part("High conflict patterns")>>
            ELSE IF FLt(conflict_ratio, Frac(1, 10)) THEN <<Part("Low conflict patterns")>>
            ELSE <<>>
        compatibility ==
            IF Abs(couple_profile.education_level - couple_profile.income_level) > 2
            THEN <<Part("Significant education-income mismatch")>>
            ELSE <<Part("Compatible education and income levels")>>
    IN age \o civil \o children \o alignment \o conflict \o compatibility

\* Lines 1398-1462
generate_risk_reasoning(couple_profile, personalized_features, risk_level) ==
    LET reasoning_parts == RiskReasoningParts(couple_profile, personalized_features)
    IN IF risk_level = "High"
       THEN [head |-> "High risk assessment based on",
             parts |-> Take(reasoning_parts, 4)]
       ELSE IF risk_level = "Medium"
       THEN [head |-> "Medium risk assessment based on",
             parts |-> Take(reasoning_parts, 3)]
       ELSE [head |-> "Low risk assessment based on",
             parts |-> Take(reasoning_parts, 3)]

HighPriority(cat) == FGt(cat.score, Frac(6, 10))
ModeratePriority(cat) == FGt(cat.score, Frac(3, 10)) /\ FLe(cat.score, Frac(6, 10))
LowPriority(cat) == FLe(cat.score, Frac(3, 10))

\* Lines 1473-1483: one part per non-empty group, naming its first two.
GroupPart(text, group) ==
    IF group = <<>> THEN <<>>
    ELSE <<[text |-> text,
            names |-> Take([i \in 1..Len(group) |-> group[i].name], 2)]>>

\* Lines 1485-1491
ConfidencePart(ml_confidence) ==
    IF FGt(ml_confidence, Frac(6, 10)) THEN Part("High confidence")
    ELSE IF FGt(ml_confidence, Frac(3, 10)) THEN Part("Moderate confidence")
    ELSE Part("Conservative confidence")

\* Lines 1464-1497
generate_counseling_reasoning(focus_categories, category_scores, ml_confidence) ==
    LET reasoning_parts ==
            GroupPart("Critical needs in", SelectSeq(focus_categories, HighPriority))
            \o GroupPart("Development areas in",
                         SelectSeq(focus_categories, ModeratePriority))
            \o GroupPart("Strong areas in", SelectSeq(focus_categories, LowPriority))
            \o <<ConfidencePart(ml_confidence)>>
    IN [head |-> "Counseling recommendation based on",
        parts |-> IF Len(reasoning_parts) > 3 THEN Take(reasoning_parts, 3)
                  ELSE reasoning_parts]

----------------------------------------------------------------------------
\* What analyze returns.  slot, categories and mapping are the globals it
\* reads; risk_prediction and raw_scores are what the two models' predict
\* return for the vector, ml_confidence the largest class probability of
\* predict_proba, nlg and nlg_result what the narrative engine does.
\* Beside the JSON body (its keys are in keys) the record keeps what the
\* handler computed on the way: the two conditional fields as requested, the
\* normalised profile, the vector and whether it reached a model, and the
\* arguments the recommendation generator was called with, and the body of
\* the request it answers.  now is what pd.Timestamp.now() returns (line
\* 1206); an error body has no generated_at, kept here as 0.
AnalyzeResponse(slot, categories, mapping, data, risk_prediction, ml_confidence, raw_scores, nlg, nlg_result, now) ==
    LET couple_profile == CoupleProfile(data)
        questionnaire_responses == QuestionnaireResponses(data, mapping)
        personalized_features == PersonalizedFeatures(data, questionnaire_responses)
        features == Features(couple_profile, questionnaire_responses,
                             personalized_features)
        refusal == Refusal(slot, Len(features))
        risk_level == RiskLevels[risk_prediction + 1]
        category_scores == raw_scores
        focus_categories == FocusCategories(categories, category_scores)
        requested == [years_living_together |-> data.years_living_together,
                      children |-> data.children]
    IN IF refusal # ""
       THEN [op |-> "analyze", status |-> "error", message |-> refusal,
             keys |-> {"status", "message"},
             requested |-> requested, couple_profile |-> couple_profile,
             features |-> features,
             reached_model |-> refusal # "Risk model not loaded",
             risk_level |-> "", category_scores |-> <<>>, focus_categories |-> <<>>,
             recommendations |-> <<>>, ml_confidence |-> Frac(0, 1),
             risk_reasoning |-> <<>>, counseling_reasoning |-> <<>>,
             generated_at |-> 0, request |-> data,
             nlg |-> "not called", nlg_args |-> <<>>]
       ELSE [op |-> "analyze", status |-> "success", message |-> "",
             keys |-> SuccessKeys,
             requested |-> requested, couple_profile |-> couple_profile,
             features |-> features, reached_model |-> TRUE,
             risk_level |-> risk_level,
             category_scores |-> category_scores,
             focus_categories |-> SortByScoreDesc(focus_categories),
             recommendations |->
                 generate_personalized_recommendations(nlg, nlg_result, risk_level,
                     category_scores, focus_categories, personalized_features,
                     data.male_responses, data.female_responses),
             ml_confidence |-> ml_confidence,
             risk_reasoning |->
                 generate_risk_reasoning(couple_profile, personalized_features,
                                         risk_level),
             counseling_reasoning |->
                 generate_counseling_reasoning(focus_categories, category_scores,
                                               ml_confidence),
             generated_at |-> now, request |-> data,
             nlg |-> nlg,
             nlg_args |-> [risk_level |-> risk_level,
                           category_scores |-> category_scores,
                           focus_categories |-> focus_categories,
                           personalized_features |-> personalized_features,
                           male_responses |-> data.male_responses,
                           female_responses |-> data.female_responses]]

\* A handler that loads the files into the slot when a model is missing.
analyze_loading(data, risk_prediction, ml_confidence, raw_scores, nlg, now) ==
    /\ Serving
    /\ LET slot == IF ml_models.risk_model = NoArtifact
                       \/ ml_models.category_model = NoArtifact
                   THEN load_ml_models(ml_models, files, "none")
                   ELSE ml_models
       IN /\ ml_models' = slot
          /\ response' = AnalyzeResponse(slot, MEAI_CATEGORIES, MEAI_QUESTION_MAPPING,
                                         data, risk_prediction, ml_confidence, raw_scores,
                                         nlg, NlgResult, now)
    /\ UNCHANGED <<phase, files, catalog, train_threads, call>>

\* A handler whose risk model draws on the clock when it predicts.
analyze_reseeded(data, risk_prediction, ml_confidence, raw_scores, nlg, now) ==
    /\ Serving
    /\ response' = AnalyzeResponse(ml_models, MEAI_CATEGORIES, MEAI_QUESTION_MAPPING,
                                   data, (risk_prediction + now) % Len(RiskLevels),
                                   ml_confidence, raw_scores, nlg, NlgResult, now)
    /\ UNCHANGED <<phase, ml_models, files, catalog, train_threads, call>>

\* The handler: it reads the slot and the catalogue and writes neither.
analyze(data, risk_prediction, ml_confidence, raw_scores, nlg, now) ==
    /\ Serving
    /\ response' = AnalyzeResponse(ml_models, MEAI_CATEGORIES, MEAI_QUESTION_MAPPING,
                                   data, risk_prediction, ml_confidence, raw_scores,
                                         nlg, NlgResult, now)
    /\ UNCHANGED <<phase, ml_models, files, catalog, train_threads, call>>


----------------------------------------------------------------------------
(* Request bodies and model outputs *)

Profiles ==
    [male_age : {45}, female_age : {30},
     civil_status : {"Single", "Living In"},
     years_living_together : {0, 10},
     past_children : BOOLEAN, children : {0, 2},
     education_level : {2}, income_level : {2}]

\* A questionnaire of the catalogue's length n, one short, one long, or none.
Questionnaires(n) ==
    {[given |-> FALSE, value |-> <<>>]}
        \cup {[given |-> TRUE, value |-> Repeat(3, k)] : k \in {n - 1, n, n + 1}}

\* Dynamics as the PHP API sends them.
ProvidedFeatures ==
    [alignment_score |-> Frac(2, 10), conflict_ratio |-> Frac(6, 10),
     male_avg_response |-> Frac(35, 10), female_avg_response |-> Frac(2, 1),
     male_consistency |-> Frac(2, 10), female_consistency |-> Frac(5, 10),
     power_balance |-> Frac(175, 100), response_variance |-> Frac(2, 1),
     total_conflicts |-> 2]

DynamicsInputs ==
    { [given |-> TRUE, male_responses |-> <<4, 4, 4>>, female_responses |-> <<2, 3, 2>>],
      [given |-> FALSE, male_responses |-> <<>>, female_responses |-> <<>>],
      [given |-> FALSE, male_responses |-> <<4, 4, 4, 4>>,
                        female_responses |-> <<2, 2, 2, 2>>],
      [given |-> FALSE, male_responses |-> <<4, 3, 4>>, female_responses |-> <<4, 4, 3>>] }

Request(p, q, d) ==
    [male_age |-> p.male_age, female_age |-> p.female_age,
     civil_status |-> p.civil_status,
     years_living_together |-> p.years_living_together,
     past_children |-> p.past_children, children |-> p.children,
     education_level |-> p.education_level, income_level |-> p.income_level,
     has_questionnaire_responses |-> q.given, questionnaire_responses |-> q.value,
     has_personalized_features |-> d.given, personalized_features |-> ProvidedFeatures,
     male_responses |-> d.male_responses, female_responses |-> d.female_responses]

\* The request sent while the slot and the files change under Spec: a
\* profile with both conditional fields set against their conditions, no
\* questionnaire_responses key, and both partners' answers.
LifecycleRequest ==
    Request([male_age |-> 45, female_age |-> 30, civil_status |-> "Single",
             years_living_together |-> 10, past_children |-> FALSE, children |-> 2,
             education_level |-> 2, income_level |-> 2],
            [given |-> FALSE, value |-> <<>>],
            [given |-> FALSE, male_responses |-> <<4, 4, 4, 4>>,
             female_responses |-> <<2, 2, 2, 2>>])

\* The largest of the class probabilities (line 1145): at least 1/3 with
\* three classes.
ConfidenceValues == {Frac(6, 10), Frac(9, 10)}

\* Scores the category model can predict, after the clip to [0, 1].
ScoreValues == {Frac(3, 10), Frac(8, 10)}
ScoreVectors(n, values) == [1..n -> values]

\* Scores on and between the thresholds the handler and the generators
\* compare with, and the vectors that start at each of them in turn.
ScoreLadder ==
    <<Frac(3, 10), Frac(6, 10), Frac(45, 100), Frac(8, 10), Frac(25, 100), Frac(7, 10)>>
LadderVectors(n) ==
    {[i \in 1..n |-> ScoreLadder[((i + k - 1) % Len(ScoreLadder)) + 1]] :
        k \in 0..(Len(ScoreLadder) - 1)}
PredictedScores(n) == ScoreVectors(n, ScoreValues) \cup LadderVectors(n)


----------------------------------------------------------------------------
(* /train: train_ml_models, one thread per request.  The thread is split at  *)
(* the points where another request can run between two of its writes to     *)
(* the slot.                                                                 *)

Threads == 1..MaxTrains

NewThread == [pc |-> "new", art |-> NoArtifact]

\* Lines 781-891: load the catalogue if it is empty, build the 500 rows, fit
\* both models and the encoder into locals.  fit_ok is FALSE when building
\* or fitting raises.  Every row is 6 + total_questions + 8 wide.
FittedArtifact(t, categories, mapping) ==
    [gen |-> t, n_features |-> 6 + TotalQuestions(mapping) + 8,
     n_outputs |-> Len(categories)]

\* A /train that empties the slot when building or fitting raises.
TrainFitClearing(t, db, fit_ok) ==
    /\ Serving
    /\ train_threads[t].pc = "new"
    /\ \A u \in Threads : u < t => train_threads[u].pc # "new"
    /\ LET cats == IF MEAI_CATEGORIES = <<>>
                   THEN load_categories_from_db(db) ELSE MEAI_CATEGORIES
           qs   == IF MEAI_QUESTIONS = <<>>
                   THEN load_questions_from_db(db)
                   ELSE <<MEAI_QUESTIONS, MEAI_QUESTION_MAPPING>>
       IN /\ MEAI_CATEGORIES' = cats
          /\ MEAI_QUESTIONS' = qs[1]
          /\ MEAI_QUESTION_MAPPING' = qs[2]
          /\ IF fit_ok
             THEN /\ train_threads' = [train_threads EXCEPT ![t] =
                        [pc |-> "fitted", art |-> FittedArtifact(t, cats, qs[2])]]
                  /\ UNCHANGED <<response, ml_models>>
             ELSE /\ train_threads' = [train_threads EXCEPT ![t].pc = "error"]
                  /\ response' = [op |-> "train", status |-> "error"]
                  /\ ml_models' = EmptySlot
    /\ UNCHANGED <<phase, files, call, previous>>

TrainFit(t, db, fit_ok) ==
    /\ Serving
    /\ train_threads[t].pc = "new"
    /\ \A u \in Threads : u < t => train_threads[u].pc # "new"
    /\ LET cats == IF MEAI_CATEGORIES = <<>>
                   THEN load_categories_from_db(db) ELSE MEAI_CATEGORIES
           qs   == IF MEAI_QUESTIONS = <<>>
                   THEN load_questions_from_db(db)
                   ELSE <<MEAI_QUESTIONS, MEAI_QUESTION_MAPPING>>
       IN /\ MEAI_CATEGORIES' = cats
          /\ MEAI_QUESTIONS' = qs[1]
          /\ MEAI_QUESTION_MAPPING' = qs[2]
          /\ IF fit_ok
             THEN /\ train_threads' = [train_threads EXCEPT ![t] =
                        [pc |-> "fitted", art |-> FittedArtifact(t, cats, qs[2])]]
                  /\ UNCHANGED response
             ELSE /\ train_threads' = [train_threads EXCEPT ![t].pc = "error"]
                  /\ response' = [op |-> "train", status |-> "error"]
    /\ UNCHANGED <<phase, ml_models, files, call, previous>>

\* Line 894: ml_models['risk_model'] = risk_model
PublishRiskModel(t) ==
    /\ Serving
    /\ train_threads[t].pc = "fitted"
    /\ ml_models' = [ml_models EXCEPT !.risk_model = train_threads[t].art]
    /\ train_threads' = [train_threads EXCEPT ![t].pc = "risk_published"]
    /\ UNCHANGED <<phase, files, catalog, call, response, previous>>

\* Line 895: ml_models['category_model'] = category_model
PublishCategoryModel(t) ==
    /\ Serving
    /\ train_threads[t].pc = "risk_published"
    /\ ml_models' = [ml_models EXCEPT !.category_model = train_threads[t].art]
    /\ train_threads' = [train_threads EXCEPT ![t].pc = "category_published"]
    /\ UNCHANGED <<phase, files, catalog, call, response, previous>>

\* Line 896: ml_models['risk_encoder'] = risk_encoder
PublishRiskEncoder(t) ==
    /\ Serving
    /\ train_threads[t].pc = "category_published"
    /\ ml_models' = [ml_models EXCEPT !.risk_encoder = train_threads[t].art]
    /\ train_threads' = [train_threads EXCEPT ![t].pc = "published"]
    /\ UNCHANGED <<phase, files, catalog, call, response, previous>>

\* Lines 898-906: the three pickle.dump calls in order; the one named by
\* fail_at raises (its file is left as it was) and the rest are not reached.
RECURSIVE SaveFrom(_, _, _, _)
SaveFrom(i, disk, art, fail_at) ==
    IF i > Len(ArtifactNames) THEN disk
    ELSE LET name == ArtifactNames[i] IN
         IF fail_at = name THEN disk
         ELSE SaveFrom(i + 1, [disk EXCEPT ![name] = art], art, fail_at)

\* Lines 898-909 and train()'s response, lines 1040-1058.
TrainPersist(t, fail_at) ==
    /\ Serving
    /\ train_threads[t].pc = "published"
    /\ files' = SaveFrom(1, files, train_threads[t].art, fail_at)
    /\ train_threads' = [train_threads EXCEPT ![t].pc =
                            IF fail_at = "none" THEN "ok" ELSE "error"]
    /\ response' = [op |-> "train",
                    status |-> IF fail_at = "none" THEN "success" ELSE "error"]
    /\ UNCHANGED <<phase, ml_models, catalog, call, previous>>

----------------------------------------------------------------------------
(* /status *)

MlTrained(slot) == \A i \in 1..Len(ArtifactNames) : slot[ArtifactNames[i]] # NoArtifact

status ==
    /\ Serving
    /\ response' = [op |-> "status", status |-> "success",
                    ml_trained |-> MlTrained(ml_models)]
    /\ UNCHANGED <<phase, ml_models, files, catalog, train_threads, call, previous>>

----------------------------------------------------------------------------
(* The process: __main__ (lines 1499-1520) and its restart *)

Main(db, fail_at) ==
    /\ phase = "start"
    /\ MEAI_CATEGORIES' = load_categories_from_db(db)
    /\ MEAI_QUESTIONS' = load_questions_from_db(db)[1]
    /\ MEAI_QUESTION_MAPPING' = load_questions_from_db(db)[2]
    /\ ml_models' = load_ml_models(ml_models, files, fail_at)
    /\ phase' = "serving"
    /\ UNCHANGED <<files, train_threads, call, response, previous>>

Running == {"fitted", "risk_published", "category_published", "published"}

\* The process ends and starts again: module state is as at import and the
\* files stay.  It is taken between requests: a /train cut short leaves the
\* files a failed pickle.dump leaves.
Restart ==
    /\ Serving
    /\ \A t \in Threads : train_threads[t].pc \notin Running
    /\ phase' = "start"
    /\ ml_models' = EmptySlot
    /\ MEAI_CATEGORIES' = <<>>
    /\ MEAI_QUESTIONS' = <<>>
    /\ MEAI_QUESTION_MAPPING' = <<>>
    /\ response' = [op |-> "none"]
    /\ UNCHANGED <<files, train_threads, call, previous>>

----------------------------------------------------------------------------

Init ==
    /\ phase = "start"
    /\ ml_models = EmptySlot
    /\ files = EmptySlot
    /\ MEAI_CATEGORIES = <<>>
    /\ MEAI_QUESTIONS = <<>>
    /\ MEAI_QUESTION_MAPPING = <<>>
    /\ train_threads = [t \in Threads |-> NewThread]
    /\ call = [fn |-> "none"]
    /\ response = [op |-> "none"]
    /\ previous = [op |-> "none"]

Next ==
    \/ \E db \in DbOutcomes, f \in FailPoints : Main(db, f)
    \/ \E t \in Threads, db \in DbOutcomes, fit_ok \in BOOLEAN : TrainFit(t, db, fit_ok)
    \/ \E t \in Threads : PublishRiskModel(t)
    \/ \E t \in Threads : PublishCategoryModel(t)
    \/ \E t \in Threads : PublishRiskEncoder(t)
    \/ \E t \in Threads, f \in FailPoints : TrainPersist(t, f)
    \/ status
    \/ \E raw_scores \in ScoreVectors(ml_models.category_model.n_outputs, {Frac(8, 10)}) :
           /\ analyze(LifecycleRequest, 2, Frac(9, 10), raw_scores, "import_error", 1)
           /\ UNCHANGED previous
    \/ Restart

Spec == Init /\ [][Next]_vars

----------------------------------------------------------------------------
(* SpecDyn: calculate_personalized_features_flask over every argument      *)
(* triple within the bounds.  The combined questionnaire is read only when  *)
(* one partner sequence is empty, so it is drawn only then.                 *)

Answers == {2, 3, 4}
SeqsUpTo(S, n) == UNION {[1..k -> S] : k \in 0..n}

\* Neither analyze nor the function validates the numbers of a request:
\* answers outside 2..4, zero and negative ones included, arrive as sent.
RawAnswers == {-2, 0, 2, 4}

\* The argument triples drawn.
DynCall(q, m, f) ==
    [fn |-> "calculate_personalized_features_flask",
     questionnaire_responses |-> q, male_responses |-> m, female_responses |-> f]

InitDyn ==
    /\ phase = "function"
    /\ ml_models = EmptySlot
    /\ files = EmptySlot
    /\ MEAI_CATEGORIES = <<>>
    /\ MEAI_QUESTIONS = <<>>
    /\ MEAI_QUESTION_MAPPING = <<>>
    /\ train_threads = [t \in Threads |-> NewThread]
    /\ \/ \E m \in SeqsUpTo(Answers, MaxLen), f \in SeqsUpTo(Answers, MaxLen) :
             \E q \in IF m = <<>> \/ f = <<>> THEN SeqsUpTo(Answers, MaxQLen) ELSE {<<>>} :
                call = DynCall(q, m, f)
       \/ \E m \in SeqsUpTo(RawAnswers, MaxRawLen), f \in SeqsUpTo(RawAnswers, MaxRawLen) :
             call = DynCall(<<>>, m, f)
    /\ response = [op |-> "none"]
    /\ previous = [op |-> "none"]

CalculatePersonalizedFeatures ==
    /\ call.fn = "calculate_personalized_features_flask"
    /\ response.op = "none"
    /\ response' = [op |-> "calculate_personalized_features_flask",
                    result |-> calculate_personalized_features_flask(
                                   call.questionnaire_responses,
                                   call.male_responses, call.female_responses)]
    /\ UNCHANGED <<phase, ml_models, files, catalog, train_threads, call, previous>>

NextDyn == CalculatePersonalizedFeatures

SpecDyn == InitDyn /\ [][NextDyn]_vars

----------------------------------------------------------------------------
(* SpecAnalyze: one call of analyze, or of generate_ml_recommendations, in   *)
(* each state the catalogue and the slot can be in while the server is up:   *)
(* the catalogue as each database outcome leaves it; the slot empty, caught  *)
(* between two assignments of a /train, complete, or holding models fitted   *)
(* when the catalogue had one more question, or one category fewer (the     *)
(* files outlive a change of the database: a restart loads them as they     *)
(* are).                                                                    *)

ServingSlots(categories, mapping) ==
    LET a == FittedArtifact(1, categories, mapping)
        b == [a EXCEPT !.n_features = @ + 1]
        c == [a EXCEPT !.n_outputs = @ - 1]
    IN { [risk_model |-> c, category_model |-> c, risk_encoder |-> c] :
             k \in {Len(categories)} \ {0, 1} }
       \cup
       { EmptySlot,
         [risk_model |-> a, category_model |-> NoArtifact, risk_encoder |-> NoArtifact],
         [risk_model |-> a, category_model |-> a, risk_encoder |-> NoArtifact],
         [risk_model |-> a, category_model |-> a, risk_encoder |-> a],
         [risk_model |-> b, category_model |-> b, risk_encoder |-> b] }

InitAnalyze ==
    /\ phase = "serving"
    /\ \E db \in DbOutcomes :
          /\ MEAI_CATEGORIES = load_categories_from_db(db)
          /\ MEAI_QUESTIONS = load_questions_from_db(db)[1]
          /\ MEAI_QUESTION_MAPPING = load_questions_from_db(db)[2]
    /\ ml_models \in ServingSlots(MEAI_CATEGORIES, MEAI_QUESTION_MAPPING)
    /\ files = EmptySlot
    /\ train_threads = [t \in Threads |-> NewThread]
    /\ call = [fn |-> "none"]
    /\ response = [op |-> "none"]
    /\ previous = [op |-> "none"]

\* generate_ml_recommendations has no caller in the file; it is applied to
\* a profile as analyze builds it, a risk level and one score per category.
MlRecommend(data, risk_level, category_scores) ==
    /\ Serving
    /\ response' = [op |-> "generate_ml_recommendations",
                    risk_level |-> risk_level,
                    result |-> generate_ml_recommendations(CoupleProfile(data),
                                  risk_level, category_scores, MEAI_CATEGORIES)]
    /\ UNCHANGED <<phase, ml_models, files, catalog, train_threads, call, previous>>

MlScoreValues == {Frac(2, 10), Frac(3, 10), Frac(8, 10)}

NextAnalyze ==
    \/ /\ response.op = "none"
       /\ \E p \in Profiles,
             q \in Questionnaires(TotalQuestions(MEAI_QUESTION_MAPPING)),
             d \in DynamicsInputs,
             risk_prediction \in 0..2,
             ml_confidence \in ConfidenceValues,
             raw_scores \in PredictedScores(ml_models.category_model.n_outputs),
             nlg \in NlgOutcomes :
               /\ analyze(Request(p, q, d), risk_prediction, ml_confidence, raw_scores,
                          nlg, 1)
               /\ UNCHANGED previous
    \/ /\ response.op = "none"
       /\ \E p \in Profiles,
             i \in 1..Len(RiskLevels),
             category_scores \in ScoreVectors(Len(MEAI_CATEGORIES), MlScoreValues) :
               MlRecommend(p, RiskLevels[i], category_scores)

SpecAnalyze == InitAnalyze /\ [][NextAnalyze]_vars

----------------------------------------------------------------------------
(* SpecRepeat: a request to analyze and the same request sent again, the    *)
(* slot and the catalogue as InitAnalyze leaves them and unchanged between  *)
(* the two.  A fitted model is a function of the vector: predict and        *)
(* predict_proba return to the second request what they returned to the     *)
(* first.  The clock has moved on or not, and the narrative engine is free  *)
(* to fail for one request and not for the other.                           *)

RepeatProfiles ==
    {p \in Profiles : p.past_children /\ p.children = 2 /\ p.years_living_together = 10}

\* The class the risk model predicted for a response's risk_level.
RiskIndex(risk_level) == CHOOSE i \in 0..(Len(RiskLevels) - 1) : RiskLevels[i + 1] = risk_level

FirstRequest ==
    /\ response.op = "none"
    /\ \E p \in RepeatProfiles,
          q \in Questionnaires(TotalQuestions(MEAI_QUESTION_MAPPING)),
          d \in DynamicsInputs,
          risk_prediction \in 0..(Len(RiskLevels) - 1),
          ml_confidence \in ConfidenceValues,
          raw_scores \in LadderVectors(ml_models.category_model.n_outputs),
          nlg \in NlgOutcomes :
            analyze(Request(p, q, d), risk_prediction, ml_confidence, raw_scores, nlg, 1)
    /\ UNCHANGED previous

SameRequestAgain ==
    /\ response.op = "analyze"
    /\ previous.op = "none"
    /\ previous' = response
    /\ \E nlg \in NlgOutcomes, now \in {response.generated_at, response.generated_at + 1} :
          IF response.status = "success"
          THEN analyze(response.request, RiskIndex(response.risk_level),
                       response.ml_confidence, response.category_scores, nlg, now)
          ELSE analyze(response.request, 0, Frac(9, 10), <<>>, nlg, now)

NextRepeat == FirstRequest \/ SameRequestAgain

SpecRepeat == InitAnalyze /\ [][NextRepeat]_vars

----------------------------------------------------------------------------
(* The training rows: generate_synthetic_data (generic), generate_synthetic_ *)
(* data_based_on_real_couples (patterned) and load_real_couples_for_training.*)
(* Each is modelled by the row one pass of its loop appends; what numpy      *)
(* draws is an argument.  Probabilities are in hundredths.                   *)

Max2(a, b) == IF a > b THEN a ELSE b
CountOf(s, v) == Cardinality({i \in 1..Len(s) : s[i] = v})

\* disagree_count / len(questionnaire_responses)
DisagreeRatio(questionnaire_responses) ==
    Frac(CountOf(questionnaire_responses, 2), Len(questionnaire_responses))

\* Labels that take a ratio on a threshold into the higher class.
GenericRiskLevelAtOrAbove(disagree_ratio) ==
    IF FGe(disagree_ratio, Frac(35, 100)) THEN "High"
    ELSE IF FGe(disagree_ratio, Frac(15, 100)) THEN "Medium"
    ELSE "Low"

\* Lines 585-590
GenericRiskLevel(disagree_ratio) ==
    IF FGt(disagree_ratio, Frac(35, 100)) THEN "High"
    ELSE IF FGt(disagree_ratio, Frac(15, 100)) THEN "Medium"
    ELSE "Low"

\* Lines 376-381
PatternedRiskLevel(disagree_ratio) ==
    IF FGt(disagree_ratio, Frac(3, 10)) THEN "High"
    ELSE IF FGt(disagree_ratio, Frac(15, 100)) THEN "Medium"
    ELSE "Low"

\* Lines 722-727
RealRiskLevel(disagree_ratio) ==
    IF FGt(disagree_ratio, Frac(3, 10)) THEN "High"
    ELSE IF FGt(disagree_ratio, Frac(15, 100)) THEN "Medium"
    ELSE "Low"

\* The questions of a category, and those with a response.
CategoryQuestionIds(category_id, mapping) ==
    {qid \in 1..Len(mapping) : mapping[qid] = category_id}
CategoryResponseIds(category_id, questionnaire_responses, mapping) ==
    {qid \in CategoryQuestionIds(category_id, mapping) : qid <= Len(questionnaire_responses)}

\* A score that is the disagreement ratio itself, not twice it.
CategoryScoreUnscaled(category_id, questionnaire_responses, mapping) ==
    LET ids == CategoryResponseIds(category_id, questionnaire_responses, mapping)
        twos == Cardinality({qid \in ids : questionnaire_responses[qid] = 2})
    IN IF ids = {} THEN Frac(5, 10) ELSE Frac(twos, Cardinality(ids))

\* The body of the loop over category_id, the same text in the three
\* producers (lines 386-410, 595-619, 732-757).
CategoryScore(category_id, questionnaire_responses, mapping) ==
    LET ids == CategoryResponseIds(category_id, questionnaire_responses, mapping)
        twos == Cardinality({qid \in ids : questionnaire_responses[qid] = 2})
    IN IF CategoryQuestionIds(category_id, mapping) = {} THEN Frac(5, 10)
       ELSE IF ids = {} THEN Frac(5, 10)
       ELSE IF 2 * twos > Cardinality(ids) THEN Frac(1, 1)
       ELSE Frac(2 * twos, Cardinality(ids))

CategoryScores(questionnaire_responses, categories, mapping) ==
    [category_id \in 1..Len(categories) |->
        CategoryScore(category_id, questionnaire_responses, mapping)]

----------------------------------------------------------------------------
(* generate_synthetic_data, lines 428-635 *)

couple_profiles ==
    << [age_range |-> <<18, 25>>, risk_bias |-> "high"],
       [age_range |-> <<25, 30>>, risk_bias |-> "medium"],
       [age_range |-> <<30, 40>>, risk_bias |-> "low"],
       [age_range |-> <<40, 50>>, risk_bias |-> "low"],
       [age_range |-> <<50, 70>>, risk_bias |-> "medium"] >>

age_gap_options == << <<0, 2>>, <<1, 3>>, <<2, 5>>, <<5, 15>>, <<15, 25>> >>

\* The woman's age without the floor of 18 and the ceiling of 80.
GenericFemaleAgeUnclamped(male_age, age_gap, female_younger) ==
    IF female_younger THEN male_age - age_gap ELSE male_age + age_gap

\* Lines 471-474
GenericFemaleAge(male_age, age_gap, female_younger) ==
    IF female_younger THEN Max2(18, male_age - age_gap)
    ELSE Min2(80, male_age + age_gap)

\* Lines 477-482
CivilStatusOptions(risk_bias) ==
    IF risk_bias = "high" THEN {"Single", "Living In", "Separated", "Divorced"}
    ELSE IF risk_bias = "low" THEN {"Single", "Living In", "Widowed"}
    ELSE {"Single", "Living In", "Widowed", "Separated"}

\* Lines 487-495; np.random.randint(a, b) is in a..(b - 1)
GenericYearsOptions(civil_status, male_age) ==
    IF civil_status = "Living In"
    THEN IF male_age < 25 THEN 1..4
         ELSE IF male_age < 40 THEN 1..14
         ELSE 5..24
    ELSE {0}

\* Lines 503-509
GenericChildrenOptions(has_past_children, male_age) ==
    IF has_past_children
    THEN IF male_age < 30 THEN 1..2 ELSE 1..4
    ELSE {0}

\* Lines 520-525
IncomeOptions(education_level) ==
    IF education_level >= 3 THEN 2..4
    ELSE IF education_level >= 2 THEN 1..4
    ELSE 0..3

\* Neutral taken as what is left of 1.2, not of 1.
NeutralOfWider(disagree, agree) == 120 - disagree - agree

\* Line 572
NeutralProb(disagree, agree) == 100 - disagree - agree

\* Lines 533-572: <<disagree, neutral, agree>>, the p of np.random.choice.
ResponseProbabilities(risk_bias, male_age, female_age, education_level, income_level, civil_status, years_living_together) ==
    LET base == IF risk_bias = "high" THEN <<40, 30>>
                ELSE IF risk_bias = "low" THEN <<10, 60>>
                ELSE <<20, 40>>
        age_gap == Abs(male_age - female_age)
        gap == IF age_gap > 10 THEN <<base[1] + 20, base[2] - 10>>
               ELSE IF age_gap > 5 THEN <<base[1] + 10, base[2] - 5>>
               ELSE base
        education_diff == Abs(education_level - income_level)
        edu == IF education_diff > 2 THEN <<gap[1] + 10, gap[2] - 5>> ELSE gap
        civ == IF civil_status \in {"Separated", "Divorced"}
               THEN <<edu[1] + 20, edu[2] - 10>>
               ELSE IF civil_status = "Living In" /\ years_living_together > 10
               THEN <<edu[1] - 10, edu[2] + 10>>
               ELSE edu
        base_disagree_prob == Max2(5, Min2(80, civ[1]))
        base_agree_prob == Max2(10, Min2(80, civ[2]))
    IN << Frac(base_disagree_prob, 100),
          Frac(NeutralProb(base_disagree_prob, base_agree_prob), 100),
          Frac(base_agree_prob, 100) >>

\* The row of one pass, with the p the responses were drawn under.
GenericRow(profile, male_age, age_gap, female_younger, civil_status, years_living_together, has_past_children, children, education_level, income_level, questionnaire_responses, categories, mapping) ==
    LET female_age == GenericFemaleAge(male_age, age_gap, female_younger)
    IN [male_age |-> male_age, female_age |-> female_age,
        civil_status |-> civil_status,
        years_living_together |-> years_living_together,
        past_children |-> has_past_children, children |-> children,
        education_level |-> education_level, income_level |-> income_level,
        questionnaire_responses |-> questionnaire_responses,
        risk_level |-> GenericRiskLevel(DisagreeRatio(questionnaire_responses)),
        category_scores |-> CategoryScores(questionnaire_responses, categories, mapping),
        p |-> ResponseProbabilities(profile.risk_bias, male_age, female_age,
                                    education_level, income_level, civil_status,
                                    years_living_together)]

----------------------------------------------------------------------------
(* load_real_couples_for_training, lines 637-779.  A couple is its row of    *)
(* couple_profile, a NULL column read as 0 or "" (each is falsy, as None     *)
(* is), and its question_response rows in question_id order.                 *)

MinimumResponses == 50

\* Lines 701-707
ResponseCode(answer) ==
    IF answer = "agree" THEN 4 ELSE IF answer = "neutral" THEN 3 ELSE 2

\* Lines 713-715: pad with neutral, then cut, to the expected length.
PadOrTruncate(questionnaire_responses, total_expected_responses) ==
    Take(questionnaire_responses
             \o Repeat(3, Max2(0, total_expected_responses - Len(questionnaire_responses))),
         total_expected_responses)

\* x or default, for a number and for a string
OrNumber(x, default) == IF x = 0 THEN default ELSE x
OrString(x, default) == IF x = "" THEN default ELSE x

\* One pass of the loop over couples: "skipped" under 50 responses,
\* "raised" when the division of line 720 is by zero (the except of line
\* 777 then returns no row at all), else the row appended.
RealCouple(couple, responses, categories, mapping) ==
    LET questionnaire_responses ==
            PadOrTruncate([i \in 1..Len(responses) |-> ResponseCode(responses[i])],
                          Len(mapping))
    IN IF Len(responses) < MinimumResponses THEN [outcome |-> "skipped"]
       ELSE IF Len(questionnaire_responses) = 0 THEN [outcome |-> "raised"]
       ELSE [outcome |-> "row",
             row |-> [male_age |-> OrNumber(couple.male_age, 30),
                      female_age |-> OrNumber(couple.female_age, 30),
                      civil_status |-> OrString(couple.civil_status, "Single"),
                      years_living_together |-> OrNumber(couple.years_living_together, 0),
                      past_children |-> couple.past_children # 0,
                      children |-> OrNumber(couple.children, 0),
                      education_level |-> OrNumber(couple.education_level, 2),
                      income_level |-> OrNumber(couple.income_level, 2),
                      questionnaire_responses |-> questionnaire_responses,
                      risk_level |-> RealRiskLevel(DisagreeRatio(questionnaire_responses)),
                      category_scores |->
                          CategoryScores(questionnaire_responses, categories, mapping)]]

\* The list returned for one couple in the database.
load_real_couples_for_training(couple, responses, categories, mapping) ==
    LET pass == RealCouple(couple, responses, categories, mapping)
    IN IF pass.outcome = "row" THEN <<pass.row>> ELSE <<>>

----------------------------------------------------------------------------
(* generate_synthetic_data_based_on_real_couples, lines 293-426 *)

Column(real_couples_data, name) ==
    [i \in 1..Len(real_couples_data) |-> real_couples_data[i][name]]

Values(s) == {s[i] : i \in 1..Len(s)}

RECURSIVE InsertAscending(_, _)
InsertAscending(sorted, x) ==
    IF sorted = <<>> THEN <<x>>
    ELSE IF x <= Head(sorted) THEN <<x>> \o sorted
    ELSE <<Head(sorted)>> \o InsertAscending(Tail(sorted), x)

RECURSIVE SortAscending(_)
SortAscending(s) ==
    IF s = <<>> THEN <<>> ELSE InsertAscending(SortAscending(Tail(s)), Head(s))

\* np.percentile(age_gaps, 90), linear interpolation, as a fraction.
Percentile90(age_gaps) ==
    LET sorted == SortAscending(age_gaps)
        position == 9 * (Len(sorted) - 1)       \* tenths of an index from 0
        below == sorted[(position \div 10) + 1]
        above == sorted[Min2((position \div 10) + 2, Len(sorted))]
    IN Frac(10 * below + (above - below) * (position % 10), 10)

\* The gap kept only when it is under the percentile.
AdjustLargeGapInverted(male_age, female_age, age_gaps) ==
    LET real_age_gap == Abs(male_age - female_age)
    IN IF FGt(Frac(real_age_gap, 1), Percentile90(age_gaps))
       THEN <<Max2(18, Min2(male_age, female_age)), Max2(18, Min2(male_age, female_age))>>
       ELSE <<male_age, female_age>>

\* Lines 334-340: <<male_age, female_age>> after the large-gap branch.
AdjustLargeGap(male_age, female_age, age_gaps) ==
    LET real_age_gap == Abs(male_age - female_age)
    IN IF FGt(Frac(real_age_gap, 1), Percentile90(age_gaps))
       THEN IF male_age > female_age
            THEN <<male_age, Max2(18, male_age - real_age_gap)>>
            ELSE <<Max2(18, female_age - real_age_gap), female_age>>
       ELSE <<male_age, female_age>>

\* Line 347: np.random.randint(1, max(1, int(mean) + 5))
PatternedYearsOptions(civil_status, real_years_together) ==
    IF civil_status = "Living In"
    THEN 1..(Max2(1, (SumSeq(real_years_together) \div Len(real_years_together)) + 5) - 1)
    ELSE {0}

\* Lines 366-370
VaryResponses(base_responses, variation) ==
    [j \in 1..Len(base_responses) |-> Max2(2, Min2(4, base_responses[j] + variation[j]))]

\* The row of one pass.  raw_male_age and raw_female_age are the
\* int(np.random.normal(...)) of lines 326-327; drawn keeps the ages after
\* the clamp of lines 330-331 and the gap of line 334.
PatternedRow(real_couples_data, base_couple_idx, raw_male_age, raw_female_age, civil_status, years_living_together, has_past_children, children, education_level, income_level, variation, categories, mapping) ==
    LET age_gaps == [i \in 1..Len(real_couples_data) |->
                        Abs(real_couples_data[i].male_age
                            - real_couples_data[i].female_age)]
        male_age == Max2(18, Min2(80, raw_male_age))
        female_age == Max2(18, Min2(80, raw_female_age))
        ages == AdjustLargeGap(male_age, female_age, age_gaps)
        questionnaire_responses ==
            VaryResponses(real_couples_data[base_couple_idx].questionnaire_responses,
                          variation)
    IN [male_age |-> ages[1], female_age |-> ages[2],
        civil_status |-> civil_status,
        years_living_together |-> years_living_together,
        past_children |-> has_past_children, children |-> children,
        education_level |-> education_level, income_level |-> income_level,
        questionnaire_responses |-> questionnaire_responses,
        risk_level |-> PatternedRiskLevel(DisagreeRatio(questionnaire_responses)),
        category_scores |-> CategoryScores(questionnaire_responses, categories, mapping),
        drawn |-> [male_age |-> male_age, female_age |-> female_age,
                   real_age_gap |-> Abs(male_age - female_age),
                   percentile |-> Percentile90(age_gaps)]]

----------------------------------------------------------------------------
(* train_ml_models, lines 860-872: the targets of one row *)

risk_mapping == [Low |-> 0, Medium |-> 1, High |-> 2]

\* An encoding that numbers the labels from the riskiest down.
EncodeRiskDescending(risk_level) == 2 - risk_mapping[risk_level]

\* Line 862: risk_mapping[row['risk_level']]
EncodeRisk(risk_level) == risk_mapping[risk_level]

----------------------------------------------------------------------------
(* SpecSamples: one row of one producer, and the targets train_ml_models     *)
(* takes from it, with the catalogue as train_ml_models finds or loads it    *)
(* (lines 785-789).  What numpy draws is taken from the ends of each range   *)
(* and from the response sequences whose disagree share is at or next to a   *)
(* label threshold.                                                          *)

\* The catalogue read fails (fallback: four categories, one question each),
\* the tables are empty, or they hold three categories: the first with two
\* questions of five sub-questions, the second with one of ten, the third
\* with none.
TrainingDbOutcomes ==
    { [ok |-> FALSE, categories |-> <<>>, questions |-> <<>>],
      [ok |-> TRUE, categories |-> <<>>, questions |-> <<>>],
      [ok |-> TRUE,
       categories |-> <<"Marriage And Relationship", "Planning The Family",
                        "Responsible Parenthood">>,
       questions |-> << [cat |-> 1, subs |-> <<5, 5>>], [cat |-> 2, subs |-> <<10>>] >>] }

Ends(S) == {x \in S : (\A y \in S : x <= y) \/ (\A y \in S : x >= y)}

\* Counts of disagree answers among n: none, all, and those on each side of
\* 15%, 30% and 35% of n.
DisagreeCounts(n) ==
    {k \in 0..n : \/ k \in {0, n}
                  \/ \E t \in {15, 30, 35} : k \in {(t * n) \div 100, ((t * n) \div 100) + 1}}

\* The disagree answers first among neutral ones, or last among agree ones.
ResponseDraws(n) ==
    {[i \in 1..n |-> IF i <= k THEN 2 ELSE 3] : k \in DisagreeCounts(n)}
        \cup {[i \in 1..n |-> IF i > n - k THEN 2 ELSE 4] : k \in DisagreeCounts(n)}

GapDraws == {g \in UNION {age_gap_options[o][1]..age_gap_options[o][2] : o \in 1..Len(age_gap_options)} : g \in {0, 6, 25}}

ResponseWord(code) == IF code = 4 THEN "agree" ELSE IF code = 3 THEN "neutral" ELSE "disagree"

\* question_response rows of a couple: one short of the minimum, or the
\* minimum with the first n as drawn and neutral after.
DbResponseDraws(n) ==
    {Repeat("agree", MinimumResponses - 1)}
        \cup {[i \in 1..MinimumResponses |-> IF i <= Len(r) THEN ResponseWord(r[i]) ELSE "neutral"] :
                 r \in ResponseDraws(Min2(n, MinimumResponses))}

\* couple_profile rows: one complete, one with NULL columns.
DbCouples ==
    << [male_age |-> 30, female_age |-> 28, civil_status |-> "Living In",
        years_living_together |-> 3, past_children |-> 1, children |-> 2,
        education_level |-> 3, income_level |-> 2],
       [male_age |-> 62, female_age |-> 0, civil_status |-> "",
        years_living_together |-> 0, past_children |-> 0, children |-> 0,
        education_level |-> 3, income_level |-> 0] >>

\* real_couples_data as the loader returns it, for the first couple or both.
RealCoupleLists(categories, mapping) ==
    {l \in UNION {{load_real_couples_for_training(DbCouples[1], r, categories, mapping),
                   load_real_couples_for_training(DbCouples[1], r, categories, mapping)
                       \o load_real_couples_for_training(DbCouples[2], r, categories, mapping)} :
                  r \in DbResponseDraws(Len(mapping))} : l # <<>>}

\* int(np.random.normal(mean, std)): the mean when all ages are equal, any
\* integer otherwise.
RawAgeDraws(ages) ==
    IF Cardinality(Values(ages)) = 1 THEN Values(ages) ELSE {10, 30, 55, 95}

InitSamples ==
    /\ phase = "training"
    /\ \E db \in TrainingDbOutcomes :
          /\ MEAI_CATEGORIES = load_categories_from_db(db)
          /\ MEAI_QUESTIONS = load_questions_from_db(db)[1]
          /\ MEAI_QUESTION_MAPPING = load_questions_from_db(db)[2]
    /\ ml_models = EmptySlot
    /\ files = EmptySlot
    /\ train_threads = [t \in Threads |-> NewThread]
    /\ call = [fn |-> "none"]
    /\ response = [op |-> "none"]
    /\ previous = [op |-> "none"]

GenerateSynthetic ==
    /\ phase = "training"
    /\ response.op = "none"
    /\ \E i \in 1..Len(couple_profiles), age_gap \in GapDraws, female_younger \in BOOLEAN :
        \E male_age \in Ends(couple_profiles[i].age_range[1]..couple_profiles[i].age_range[2]),
           civil_status \in CivilStatusOptions(couple_profiles[i].risk_bias),
           has_past_children \in BOOLEAN,
           education_level \in Ends(0..4) :
          \E years_living_together \in Ends(GenericYearsOptions(civil_status, male_age)),
             children \in Ends(GenericChildrenOptions(has_past_children, male_age)),
             income_level \in Ends(IncomeOptions(education_level)),
             questionnaire_responses \in ResponseDraws(TotalQuestions(MEAI_QUESTION_MAPPING)) :
               response' = [op |-> "generate_synthetic_data",
                            data |-> <<GenericRow(couple_profiles[i], male_age, age_gap,
                                          female_younger, civil_status,
                                          years_living_together, has_past_children,
                                          children, education_level, income_level,
                                          questionnaire_responses, MEAI_CATEGORIES,
                                          MEAI_QUESTION_MAPPING)>>]
    /\ UNCHANGED <<phase, ml_models, files, catalog, train_threads, call, previous>>

GeneratePatterned ==
    /\ phase = "training"
    /\ response.op = "none"
    /\ \E real_couples_data \in RealCoupleLists(MEAI_CATEGORIES, MEAI_QUESTION_MAPPING) :
        \E base_couple_idx \in 1..Len(real_couples_data),
           raw_male_age \in RawAgeDraws(Column(real_couples_data, "male_age")),
           raw_female_age \in RawAgeDraws(Column(real_couples_data, "female_age")),
           civil_status \in Values(Column(real_couples_data, "civil_status")),
           has_past_children \in BOOLEAN,
           education_level \in Values(Column(real_couples_data, "education_level")),
           income_level \in Values(Column(real_couples_data, "income_level")),
           v \in {-1, 0, 1} :
          \E years_living_together \in
                 Ends(PatternedYearsOptions(civil_status,
                          Column(real_couples_data, "years_living_together"))),
             children \in IF has_past_children
                          THEN Values(Column(real_couples_data, "children")) ELSE {0} :
               response' = [op |-> "generate_synthetic_data_based_on_real_couples",
                            data |-> <<PatternedRow(real_couples_data, base_couple_idx,
                                          raw_male_age, raw_female_age, civil_status,
                                          years_living_together, has_past_children,
                                          children, education_level, income_level,
                                          Repeat(v, Len(MEAI_QUESTION_MAPPING)),
                                          MEAI_CATEGORIES, MEAI_QUESTION_MAPPING)>>]
    /\ UNCHANGED <<phase, ml_models, files, catalog, train_threads, call, previous>>

LoadRealCouples ==
    /\ phase = "training"
    /\ response.op = "none"
    /\ \E c \in 1..Len(DbCouples), responses \in DbResponseDraws(Len(MEAI_QUESTION_MAPPING)) :
          response' = [op |-> "load_real_couples_for_training",
                       outcome |-> RealCouple(DbCouples[c], responses, MEAI_CATEGORIES,
                                              MEAI_QUESTION_MAPPING).outcome,
                       data |-> load_real_couples_for_training(DbCouples[c], responses,
                                    MEAI_CATEGORIES, MEAI_QUESTION_MAPPING)]
    /\ UNCHANGED <<phase, ml_models, files, catalog, train_threads, call, previous>>

Producers ==
    {"generate_synthetic_data", "generate_synthetic_data_based_on_real_couples",
     "load_real_couples_for_training"}

\* Lines 860-872: what the loop over the rows appends to y_risk and
\* y_categories for the row.
EncodeTargets ==
    /\ phase = "training"
    /\ response.op \in Producers
    /\ response.data # <<>>
    /\ response' = [op |-> "train_ml_models",
                    risk_level |-> response.data[1].risk_level,
                    y_risk |-> EncodeRisk(response.data[1].risk_level),
                    y_categories |-> response.data[1].category_scores]
    /\ UNCHANGED <<phase, ml_models, files, catalog, train_threads, call, previous>>

NextSamples ==
    \/ GenerateSynthetic
    \/ GeneratePatterned
    \/ LoadRealCouples
    \/ EncodeTargets

SpecSamples == InitSamples /\ [][NextSamples]_vars

----------------------------------------------------------------------------
(* SpecRules: generate_rule_based_recommendations over every pair of        *)
(* partner sequences within MaxLen, equal in length or not, with the        *)
(* dynamics analyze computes from them and the fallback catalogue.          *)

RulesCall(m, f) ==
    [fn |-> "generate_rule_based_recommendations",
     male_responses |-> m, female_responses |-> f]

InitRules ==
    /\ phase = "function"
    /\ ml_models = EmptySlot
    /\ files = EmptySlot
    /\ MEAI_CATEGORIES = FallbackCategories
    /\ MEAI_QUESTIONS = FallbackQuestions
    /\ MEAI_QUESTION_MAPPING = <<1, 2, 3, 4>>
    /\ train_threads = [t \in Threads |-> NewThread]
    /\ \E m \in SeqsUpTo(Answers, MaxLen), f \in SeqsUpTo(Answers, MaxLen) :
          call = RulesCall(m, f)
    /\ response = [op |-> "none"]
    /\ previous = [op |-> "none"]

\* The list returned, with the three shares computed on the way.
RuleBasedRecommendations(risk_level, category_scores) ==
    /\ call.fn = "generate_rule_based_recommendations"
    /\ response.op = "none"
    /\ response' =
          [op |-> "generate_rule_based_recommendations",
           result |-> generate_rule_based_recommendations(risk_level, category_scores,
                          FocusCategories(MEAI_CATEGORIES, category_scores),
                          calculate_personalized_features_flask(<<>>,
                              call.male_responses, call.female_responses),
                          call.male_responses, call.female_responses),
           dynamics |-> CoupleDynamics(call.male_responses, call.female_responses)]
    /\ UNCHANGED <<phase, ml_models, files, catalog, train_threads, call, previous>>

NextRules ==
    \E i \in 1..Len(RiskLevels), k \in 1..Len(ScoreLadder) :
        RuleBasedRecommendations(RiskLevels[i], Repeat(ScoreLadder[k], Len(MEAI_CATEGORIES)))

SpecRules == InitRules /\ [][NextRules]_vars

----------------------------------------------------------------------------
(* The claims *)

SlotGens == {ml_models[ArtifactNames[i]].gen : i \in 1..Len(ArtifactNames)}

\* C1: while requests are served, the three slot entries always come from
\* the same publish or load: risk_model, category_model and risk_encoder
\* are never a mix of two generations (None counting as the one before the
\* first).
C1_SlotReplacedAtomically ==
    Serving => Cardinality(SlotGens) = 1

BothModelsPresent ==
    ml_models.risk_model # NoArtifact /\ ml_models.category_model # NoArtifact

\* C2: analyze answers with an error that carries neither risk_level nor
\* category_scores whenever risk_model or category_model is None, and
\* answers success only when both are present.
C2_RefusesWithoutModels ==
    response.op = "analyze" =>
        /\ ~BothModelsPresent =>
               /\ response.status = "error"
               /\ "risk_level" \notin response.keys
               /\ "category_scores" \notin response.keys
        /\ response.status = "success" => BothModelsPresent

C2_Witness ==
    /\ response.op = "analyze"
    /\ response.status = "error"
    /\ ml_models.risk_model # NoArtifact
    /\ ml_models.category_model = NoArtifact

\* C3: a /train that reports an error has replaced no slot entry: no entry
\* of the slot holds an artifact that request fitted.
C3_FailedTrainLeavesSlot ==
    \A t \in Threads :
        train_threads[t].pc = "error" => t \notin SlotGens

\* C4: every step in which analyze answers, served or refused, leaves the
\* slot, the catalogue, the files and the running /train requests as they
\* were: a missing model starts neither a load nor a training.
C4_AnalyzeWritesNothing ==
    [][(response' # response /\ response'.op = "analyze")
        => UNCHANGED <<ml_models, MEAI_CATEGORIES, MEAI_QUESTIONS,
                       MEAI_QUESTION_MAPPING, files, train_threads>>]_vars

\* analyze has refused a request for a missing model while the files hold
\* artifacts it could have loaded.
C4_Witness ==
    /\ response.op = "analyze"
    /\ response.message = "Risk model not loaded"
    /\ ml_models.risk_model = NoArtifact
    /\ files.risk_model # NoArtifact

NlgFailed == response.op = "analyze" /\ response.nlg \in {"import_error", "exception"}

\* C5: when the narrative engine cannot be imported or raises, analyze
\* still succeeds and its recommendations are exactly what
\* generate_rule_based_recommendations returns for the same arguments.
C5_NlgFailureFallsBack ==
    NlgFailed =>
        /\ response.status = "success"
        /\ response.recommendations =
               generate_rule_based_recommendations(
                   response.nlg_args.risk_level, response.nlg_args.category_scores,
                   response.nlg_args.focus_categories,
                   response.nlg_args.personalized_features,
                   response.nlg_args.male_responses, response.nlg_args.female_responses)

C5_Witness ==
    /\ response.op = "analyze"
    /\ response.nlg = "exception"
    /\ response.status = "success"
    /\ Len(response.recommendations) > 0

RuleBasedServed ==
    response.op = "analyze" /\ response.status = "success" /\ response.nlg # "ok"

\* C6: no recommendation list is longer than 8: neither the rule-based list
\* analyze returns nor the list of generate_ml_recommendations.
C6_AtMostEight ==
    /\ RuleBasedServed => Len(response.recommendations) <= 8
    /\ response.op = "generate_ml_recommendations" =>
           Len(response.result.recommendations) <= 8

RiskProfileHeadlines == {"HIGH RISK PROFILE", "MEDIUM RISK PROFILE", "LOW RISK PROFILE"}

\* C7: the first entry of every recommendation list is the risk-level
\* headline.
C7_HeadlineFirst ==
    /\ RuleBasedServed =>
           /\ Len(response.recommendations) > 0
           /\ response.recommendations[1] \in RiskProfileHeadlines
    /\ response.op = "generate_ml_recommendations" =>
           response.result.recommendations[1] = MlRiskHeadline(response.risk_level)

\* C8: every vector analyze hands to a model has 6 + N + 8 entries, N the
\* question count of the catalogue (31 when the mapping is empty, as for
\* the rows train_ml_models builds).
C8_VectorWidth ==
    (response.op = "analyze" /\ response.reached_model) =>
        Len(response.features) = 6 + TotalQuestions(MEAI_QUESTION_MAPPING) + 8

\* C9: the profile analyze assembles features from has years_living_together
\* 0 unless civil_status is 'Living In' and children 0 unless past_children,
\* whatever the request said, and the vector carries those values.
C9_ConditionalFieldsReset ==
    response.op = "analyze" =>
        /\ response.couple_profile.civil_status # "Living In" =>
               /\ response.couple_profile.years_living_together = 0
               /\ response.features[3] = Frac(0, 1)
        /\ ~response.couple_profile.past_children =>
               /\ response.couple_profile.children = 0
               /\ response.features[4] = Frac(0, 1)

C9_Witness ==
    /\ response.op = "analyze"
    /\ response.status = "success"
    /\ response.couple_profile.civil_status = "Single"
    /\ response.requested.years_living_together = 10
    /\ ~response.couple_profile.past_children
    /\ response.requested.children = 2

\* Every position has one partner answering 4 and the other 2.
MaximallyOpposed(m, f) ==
    /\ Len(m) > 0
    /\ Len(m) = Len(f)
    /\ \A i \in 1..Len(m) : {m[i], f[i]} = {2, 4}

\* C10: for maximally opposed partner sequences the calculator returns
\* alignment_score 0.0 and conflict_ratio 1.0.
C10_OpposedSequences ==
    (response.op = "calculate_personalized_features_flask"
        /\ MaximallyOpposed(call.male_responses, call.female_responses)) =>
            /\ FEq(response.result.alignment_score, Frac(0, 1))
            /\ FEq(response.result.conflict_ratio, Frac(1, 1))

IsAnswerSeq(s) == \A i \in 1..Len(s) : s[i] \in Answers

\* The call made is one on two non-empty partner sequences of answers 2..4.
ValidPairCall ==
    /\ response.op = "calculate_personalized_features_flask"
    /\ Len(call.male_responses) > 0 /\ Len(call.female_responses) > 0
    /\ IsAnswerSeq(call.male_responses) /\ IsAnswerSeq(call.female_responses)

\* C11: for non-empty partner sequences over {2,3,4} alignment_score lies
\* in [0, 1], and it is 1.0 when the two sequences are identical.
C11_AlignmentRange ==
    ValidPairCall =>
        /\ FGe(response.result.alignment_score, Frac(0, 1))
        /\ FLe(response.result.alignment_score, Frac(1, 1))
        /\ call.male_responses = call.female_responses =>
               FEq(response.result.alignment_score, Frac(1, 1))

C11_Witness ==
    /\ ValidPairCall
    /\ call.male_responses = <<2, 4, 3>>
    /\ call.female_responses = <<2, 4, 3>>
    /\ FEq(response.result.alignment_score, Frac(1, 1))

\* The partner sequences the call worked on: the two it was given, or the
\* halves of the combined questionnaire.
UsedSequences ==
    PartnerSplit(call.questionnaire_responses, call.male_responses, call.female_responses)

\* The population variance of s by its definition, the mean of the squared
\* deviations from the mean: sum((n * r - sum) ^ 2) / n ^ 3.
SquaredDeviations(s) ==
    LET n == Len(s)
        sm == SumSeq(s)
    IN SumSeq([i \in 1..n |-> (n * s[i] - sm) * (n * s[i] - sm)])

\* c is max(0, 1 - variance(s) / 4)
IsScaledConsistency(c, s) ==
    LET n == Len(s)
        e == Frac(4 * n * n * n - SquaredDeviations(s), 4 * n * n * n)
    IN IF e[1] < 0 THEN FEq(c, Frac(0, 1)) ELSE FEq(c, e)

ConsistencyAsStated(c, s) ==
    /\ c[2] > 0
    /\ Len(s) < 2 => FEq(c, Frac(1, 1))
    /\ Len(s) >= 2 => IsScaledConsistency(c, s)
    /\ FGe(c, Frac(0, 1)) /\ FLe(c, Frac(1, 1))

\* C12: a partner's consistency is 1.0 for a sequence of length 0 or 1 and
\* max(0, 1 - variance / 4), with the population variance, for a longer
\* one; it always lies in [0, 1].
C12_Consistency ==
    response.op = "calculate_personalized_features_flask" =>
        /\ ConsistencyAsStated(response.result.male_consistency, UsedSequences.male)
        /\ ConsistencyAsStated(response.result.female_consistency, UsedSequences.female)

C12_Witness ==
    /\ response.op = "calculate_personalized_features_flask"
    /\ call.male_responses = <<2, 4, 4>>
    /\ call.female_responses = <<3>>
    /\ FEq(response.result.male_consistency, Frac(7, 9))
    /\ FEq(response.result.female_consistency, Frac(1, 1))

\* b is male_avg / female_avg
IsRatio(b, male_avg, female_avg) ==
    FEq(b, Frac(male_avg[1] * female_avg[2], male_avg[2] * female_avg[1]))

\* C13 as stated: power_balance is male_avg / female_avg whenever
\* female_avg is not zero and 1.0 when female_avg is zero, and nothing is
\* divided by zero.
C13_PowerBalanceNonZero ==
    response.op = "calculate_personalized_features_flask" =>
        LET r == response.result IN
        /\ r.power_balance[2] # 0
        /\ r.female_avg_response[1] # 0 =>
               IsRatio(r.power_balance, r.male_avg_response, r.female_avg_response)
        /\ r.female_avg_response[1] = 0 => FEq(r.power_balance, Frac(1, 1))

\* C13: power_balance is male_avg / female_avg whenever female_avg is
\* positive and 1.0 whenever female_avg is zero or negative, whatever
\* male_avg is; nothing is divided by zero.
C13_PowerBalancePositive ==
    response.op = "calculate_personalized_features_flask" =>
        LET r == response.result IN
        /\ r.power_balance[2] # 0
        /\ r.female_avg_response[2] > 0
        /\ r.female_avg_response[1] > 0 =>
               IsRatio(r.power_balance, r.male_avg_response, r.female_avg_response)
        /\ r.female_avg_response[1] <= 0 => FEq(r.power_balance, Frac(1, 1))

\* female_avg is zero, male_avg is not, and power_balance is 1.0.
C13_Witness ==
    /\ response.op = "calculate_personalized_features_flask"
    /\ call.male_responses = <<4, 2>>
    /\ call.female_responses = <<-2, 2>>
    /\ FEq(response.result.female_avg_response, Frac(0, 1))
    /\ FEq(response.result.power_balance, Frac(1, 1))

\* Every number of the result is a number: no quotient has a zero divisor.
ResultIsDefined(r) ==
    /\ r.alignment_score[2] # 0 /\ r.conflict_ratio[2] # 0
    /\ r.male_avg_response[2] # 0 /\ r.female_avg_response[2] # 0
    /\ r.male_consistency[2] # 0 /\ r.female_consistency[2] # 0
    /\ r.power_balance[2] # 0 /\ r.response_variance[2] # 0

\* C14: the calculator returns a result for every combination of empty
\* and short arguments; with no comparable pair alignment_score is 0.5,
\* conflict_ratio 0 and total_conflicts 0; an empty partner sequence has
\* average 3.0 and consistency 1.0; fewer than 2 pooled responses have
\* response_variance 0.
C14_EmptyAndShortInputs ==
    response.op = "calculate_personalized_features_flask" =>
        LET r == response.result
            u == UsedSequences
        IN /\ ResultIsDefined(r)
           /\ Min2(Len(u.male), Len(u.female)) = 0 =>
                  /\ FEq(r.alignment_score, Frac(1, 2))
                  /\ FEq(r.conflict_ratio, Frac(0, 1))
                  /\ r.total_conflicts = 0
           /\ Len(u.male) = 0 =>
                  /\ FEq(r.male_avg_response, Frac(3, 1))
                  /\ FEq(r.male_consistency, Frac(1, 1))
           /\ Len(u.female) = 0 =>
                  /\ FEq(r.female_avg_response, Frac(3, 1))
                  /\ FEq(r.female_consistency, Frac(1, 1))
           /\ Len(u.all_responses) < 2 => FEq(r.response_variance, Frac(0, 1))

\* Only one partner's answers were sent and no combined questionnaire:
\* nothing is comparable.
C14_Witness ==
    /\ response.op = "calculate_personalized_features_flask"
    /\ call.male_responses = <<4>>
    /\ call.female_responses = <<>>
    /\ call.questionnaire_responses = <<>>
    /\ FEq(response.result.alignment_score, Frac(1, 2))
    /\ FEq(response.result.female_avg_response, Frac(3, 1))
    /\ response.result.total_conflicts = 0

Served == response.op = "analyze" /\ response.status = "success"

\* C15: in analyze's response a category is 'High' iff its score is above
\* 0.6, 'Moderate' iff it is above 0.3 and at most 0.6, and 'Low' iff it is
\* at most 0.3.
C15_ThreeTierPriority ==
    Served =>
        \A i \in 1..Len(response.focus_categories) :
            LET c == response.focus_categories[i] IN
            /\ c.priority = "High" <=> FGt(c.score, Frac(6, 10))
            /\ c.priority = "Moderate" <=>
                   (FGt(c.score, Frac(3, 10)) /\ FLe(c.score, Frac(6, 10)))
            /\ c.priority = "Low" <=> FLe(c.score, Frac(3, 10))

\* A response with a category at exactly 0.3 and one at exactly 0.6.
C15_Witness ==
    /\ Served
    /\ \E i, j \in 1..Len(response.focus_categories) :
          /\ response.focus_categories[i].score = Frac(3, 10)
          /\ response.focus_categories[i].priority = "Low"
          /\ response.focus_categories[j].score = Frac(6, 10)
          /\ response.focus_categories[j].priority = "Moderate"

\* C16: focus_categories in analyze's response has exactly one entry for
\* every category of the catalogue and is ordered by non-increasing score.
C16_AllCategoriesSorted ==
    Served =>
        LET fc == response.focus_categories IN
        /\ Len(fc) = Len(MEAI_CATEGORIES)
        /\ \A i \in 1..Len(MEAI_CATEGORIES) :
               Cardinality({j \in 1..Len(fc) : fc[j].name = MEAI_CATEGORIES[i]}) = 1
        /\ \A j \in 1..(Len(fc) - 1) : FGe(fc[j].score, fc[j + 1].score)

\* The topic under which the rule-based generator comments on a category.
SeverityTopic(name) ==
    IF "Marriage" \in NameWords(name) THEN "MARRIAGE"
    ELSE IF "Family" \in NameWords(name) THEN "FAMILY"
    ELSE IF "Health" \in NameWords(name) THEN "HEALTH"
    ELSE ""

SeverityEntries(topic) ==
    {"CRITICAL " \o topic, "HIGH " \o topic, "MODERATE " \o topic}

\* The severity entry of the four-tier scheme 0.2 / 0.4 / 0.7.
FourTierEntry(topic, score) ==
    IF FGt(score, Frac(7, 10)) THEN {"CRITICAL " \o topic}
    ELSE IF FGt(score, Frac(4, 10)) THEN {"HIGH " \o topic}
    ELSE IF FGt(score, Frac(2, 10)) THEN {"MODERATE " \o topic}
    ELSE {}

\* C17: the rule-based generator grades a category's severity on the
\* four-tier scheme: Critical above 0.7, High above 0.4 up to 0.7, Moderate
\* above 0.2 up to 0.4, and no severity commentary at or below 0.2.
C17_FourTierSeverity ==
    RuleBasedServed =>
        \A i \in 1..Len(response.nlg_args.focus_categories) :
            LET c == response.nlg_args.focus_categories[i]
                topic == SeverityTopic(c.name)
                said == {response.recommendations[j] :
                            j \in 1..Len(response.recommendations)}
            IN topic # "" =>
                   said \cap SeverityEntries(topic) = FourTierEntry(topic, c.score)

ConfidencePhrases == {"High confidence", "Moderate confidence", "Conservative confidence"}

PartTexts(reasoning) == {reasoning.parts[i].text : i \in 1..Len(reasoning.parts)}

\* C18: the counseling reasoning always carries the confidence phrase, and
\* with it the name list of every non-empty group of categories (critical,
\* development, strong).
C18_ConfidencePhrasePresent ==
    Served =>
        LET said == PartTexts(response.counseling_reasoning)
            fc == response.focus_categories
        IN /\ said \cap ConfidencePhrases # {}
           /\ (\E i \in 1..Len(fc) : HighPriority(fc[i])) => "Critical needs in" \in said
           /\ (\E i \in 1..Len(fc) : ModeratePriority(fc[i])) =>
                  "Development areas in" \in said
           /\ (\E i \in 1..Len(fc) : LowPriority(fc[i])) => "Strong areas in" \in said

ConsistencyEntries ==
    {"MALE INCONSISTENCY", "MALE UNCERTAINTY", "MALE CLARITY",
     "FEMALE INCONSISTENCY", "FEMALE UNCERTAINTY", "FEMALE CLARITY"}

PositivityEntries ==
    {"MALE POSITIVE", "MALE CONCERNS", "FEMALE POSITIVE", "FEMALE CONCERNS"}

\* The share of answers of 4 or more among as many answers as the male
\* partner gave (line 1275).
PositiveRatio(responses, total_responses) ==
    Frac(Cardinality({i \in 1..Len(responses) : responses[i] >= 4}), total_responses)

InsignificantRatio(ratio) == FGe(ratio, Frac(3, 10)) /\ FLe(ratio, Frac(7, 10))

\* Both partners are consistent and neither is markedly positive or
\* negative.
BalancedCouple(args) ==
    /\ Len(args.male_responses) > 0
    /\ FGe(args.personalized_features.male_consistency, Frac(6, 10))
    /\ FGe(args.personalized_features.female_consistency, Frac(6, 10))
    /\ InsignificantRatio(PositiveRatio(args.male_responses, Len(args.male_responses)))
    /\ InsignificantRatio(PositiveRatio(args.female_responses, Len(args.male_responses)))

\* C19: for a couple whose consistencies are both at least 0.6 and whose
\* positive-response ratios both lie in [0.3, 0.7] the rule-based list has
\* no partner-specific consistency entry and no partner-specific
\* positivity entry.
C19_BalancedCoupleNoPartnerEntries ==
    (RuleBasedServed /\ BalancedCouple(response.nlg_args)) =>
        {response.recommendations[j] : j \in 1..Len(response.recommendations)}
            \cap (ConsistencyEntries \cup PositivityEntries) = {}

----------------------------------------------------------------------------
\* C20

\* Two responses to the same request, the narrative engine having done the
\* same for both (absent, failed or answered).
AnsweredTwice ==
    /\ previous.op = "analyze"
    /\ response.op = "analyze"
    /\ previous.request = response.request
    /\ previous.nlg = response.nlg

\* The keys of the JSON body other than generated_at (couple_id is copied
\* from the request and analysis_method is a literal).
SameAnalysis(r1, r2) ==
    /\ r1.keys = r2.keys
    /\ r1.status = r2.status
    /\ r1.message = r2.message
    /\ r1.risk_level = r2.risk_level
    /\ r1.category_scores = r2.category_scores
    /\ r1.focus_categories = r2.focus_categories
    /\ r1.recommendations = r2.recommendations
    /\ r1.ml_confidence = r2.ml_confidence
    /\ r1.risk_reasoning = r2.risk_reasoning
    /\ r1.counseling_reasoning = r2.counseling_reasoning

----------------------------------------------------------------------------
\* C21

\* A producer has returned a row.
HasRow(op) == response.op = op /\ response.data # <<>>
Row == response.data[1]

\* The share of the row's responses that are 2.
ShareOfTwos == Frac(CountOf(Row.questionnaire_responses, 2), Len(Row.questionnaire_responses))

HighThreshold(op) == IF op = "generate_synthetic_data" THEN Frac(35, 100) ELSE Frac(3, 10)

\* C21: the risk label of a row is a function of r, the share of its
\* responses equal to 2: High iff r > T, Medium iff 0.15 < r <= T, Low iff
\* r <= 0.15, with T = 0.35 in the generic generator and T = 0.3 in the
\* patterned generator and the real-couple loader; for the same responses
\* the generic label differs from the other two exactly when 0.3 < r <= 0.35.
C21_RiskLabelByThreshold ==
    \A op \in Producers :
        HasRow(op) =>
            /\ Len(Row.questionnaire_responses) > 0
            /\ (Row.risk_level = "High") <=> FGt(ShareOfTwos, HighThreshold(op))
            /\ (Row.risk_level = "Medium") <=>
                   (FGt(ShareOfTwos, Frac(15, 100)) /\ FLe(ShareOfTwos, HighThreshold(op)))
            /\ (Row.risk_level = "Low") <=> FLe(ShareOfTwos, Frac(15, 100))
            /\ (GenericRiskLevel(ShareOfTwos) # PatternedRiskLevel(ShareOfTwos)) <=>
                   (FGt(ShareOfTwos, Frac(3, 10)) /\ FLe(ShareOfTwos, Frac(35, 100)))
            /\ PatternedRiskLevel(ShareOfTwos) = RealRiskLevel(ShareOfTwos)

\* A generic row whose share of 2 is exactly 0.35: Medium there, High in the
\* other two producers.
C21_Witness ==
    /\ HasRow("generate_synthetic_data")
    /\ FEq(ShareOfTwos, Frac(35, 100))
    /\ Row.risk_level = "Medium"
    /\ PatternedRiskLevel(ShareOfTwos) = "High"

----------------------------------------------------------------------------
\* C22

\* The questions mapped to category c whose ordinal is within the row's
\* responses, and the share of them answered 2.
WithinResponses(c) ==
    {q \in 1..Len(MEAI_QUESTION_MAPPING) :
        MEAI_QUESTION_MAPPING[q] = c /\ q <= Len(Row.questionnaire_responses)}
TwosWithin(c) == Cardinality({q \in WithinResponses(c) : Row.questionnaire_responses[q] = 2})

InUnitInterval(x) == x[2] > 0 /\ FGe(x, Frac(0, 1)) /\ FLe(x, Frac(1, 1))

\* C22: in the three producers a row has one score per catalogue category;
\* the score is min(1, 2 x the share of 2 among the category's mapped
\* questions within the response length), 0.5 when there is no such
\* question, and so lies in [0, 1].
C22_CategoryScores ==
    \A op \in Producers :
        HasRow(op) =>
            /\ Len(Row.category_scores) = Len(MEAI_CATEGORIES)
            /\ \A c \in 1..Len(MEAI_CATEGORIES) :
                  /\ InUnitInterval(Row.category_scores[c])
                  /\ IF WithinResponses(c) = {}
                     THEN FEq(Row.category_scores[c], Frac(5, 10))
                     ELSE IF 2 * TwosWithin(c) >= Cardinality(WithinResponses(c))
                     THEN FEq(Row.category_scores[c], Frac(1, 1))
                     ELSE FEq(Row.category_scores[c],
                              Frac(2 * TwosWithin(c), Cardinality(WithinResponses(c))))

\* A patterned row with a category without questions and one whose doubled
\* share is above 1 and capped.
C22_Witness ==
    /\ HasRow("generate_synthetic_data_based_on_real_couples")
    /\ \E c \in 1..Len(MEAI_CATEGORIES) :
          WithinResponses(c) = {} /\ FEq(Row.category_scores[c], Frac(5, 10))
    /\ \E c \in 1..Len(MEAI_CATEGORIES) :
          /\ 2 * TwosWithin(c) > Cardinality(WithinResponses(c))
          /\ TwosWithin(c) < Cardinality(WithinResponses(c))
          /\ FEq(Row.category_scores[c], Frac(1, 1))

----------------------------------------------------------------------------
\* C23

\* C23: in the generic generator the three probabilities the responses are
\* drawn under (disagree, neutral, agree), after the clamps, are each in
\* [0, 1] and sum to 1; the neutral one is never negative.
C23_ProbabilitiesOnSimplex ==
    HasRow("generate_synthetic_data") =>
        /\ \A i \in 1..3 : InUnitInterval(Row.p[i])
        /\ Row.p[2][1] >= 0
        /\ FEq(FAdd(FAdd(Row.p[1], Row.p[2]), Row.p[3]), Frac(1, 1))

\* Both clamps act: a young couple, more than ten years apart, separated or
\* divorced, education and income three levels apart.
C23_Witness ==
    /\ HasRow("generate_synthetic_data")
    /\ Abs(Row.male_age - Row.female_age) > 10
    /\ Abs(Row.education_level - Row.income_level) > 2
    /\ Row.civil_status \in {"Separated", "Divorced"}
    /\ Row.p = <<Frac(80, 100), Frac(10, 100), Frac(10, 100)>>

----------------------------------------------------------------------------
\* C24

\* C24: a row of the patterned generator has both ages in [18, 80]; when
\* the gap of the drawn ages (line 334, after the clamp to [18, 80]) is at
\* or above the 90th percentile of the real couples' gaps, the row's gap is
\* not smaller than it and the older partner's age is as drawn.
C24_AgesClampedGapKept ==
    HasRow("generate_synthetic_data_based_on_real_couples") =>
        /\ Row.male_age \in 18..80
        /\ Row.female_age \in 18..80
        /\ FGe(Frac(Row.drawn.real_age_gap, 1), Row.drawn.percentile) =>
               /\ Abs(Row.male_age - Row.female_age) >= Row.drawn.real_age_gap
               /\ Row.drawn.male_age > Row.drawn.female_age =>
                      Row.male_age = Row.drawn.male_age
               /\ Row.drawn.female_age > Row.drawn.male_age =>
                      Row.female_age = Row.drawn.female_age

\* A gap above the percentile with the woman the younger, at the floor of 18.
C24_Witness ==
    /\ HasRow("generate_synthetic_data_based_on_real_couples")
    /\ FGt(Frac(Row.drawn.real_age_gap, 1), Row.drawn.percentile)
    /\ Row.drawn.percentile[1] > 0
    /\ Row.male_age = 80
    /\ Row.female_age = 18

----------------------------------------------------------------------------
\* C25

Generators == {"generate_synthetic_data", "generate_synthetic_data_based_on_real_couples"}

\* C25: a row of either synthetic generator has years_living_together 0
\* unless civil_status is 'Living In', children 0 unless past_children is
\* true, and both ages between 18 and 80.
C25_RowProfileInvariants ==
    \A op \in Generators :
        HasRow(op) =>
            /\ Row.civil_status # "Living In" => Row.years_living_together = 0
            /\ ~Row.past_children => Row.children = 0
            /\ Row.male_age \in 18..80
            /\ Row.female_age \in 18..80

\* A generic row held at the floor: the man 25, the woman drawn 25 years
\* younger; widowed, so no years together, and no past children.
C25_Witness ==
    /\ HasRow("generate_synthetic_data")
    /\ Row.male_age = 25
    /\ Row.female_age = 18
    /\ Row.civil_status = "Widowed"
    /\ Row.years_living_together = 0
    /\ ~Row.past_children
    /\ Row.children = 0

----------------------------------------------------------------------------
\* C26

ModelNotLoaded == {"Risk model not loaded", "Category model not loaded"}

AnalyzeAnswers == response' # response /\ response'.op = "analyze"

\* C26: analyze asks for risk_model and category_model only.  Whenever
\* /status would report ml_trained = true, analyze returns no
\* model-not-loaded error; with both models present and risk_encoder absent
\* /status reports ml_trained = false and analyze serves as it does with the
\* encoder: success whenever the vector is as wide as the models expect.
C26_ServingNeedsTwoModels ==
    [][/\ (response' # response /\ response'.op = "status") =>
              (response'.ml_trained <=>
                  \A i \in 1..Len(ArtifactNames) : ml_models[ArtifactNames[i]] # NoArtifact)
       /\ AnalyzeAnswers =>
              /\ BothModelsPresent => response'.message \notin ModelNotLoaded
              /\ MlTrained(ml_models) => response'.message \notin ModelNotLoaded
              /\ (BothModelsPresent /\ ml_models.risk_encoder = NoArtifact) =>
                     /\ ~MlTrained(ml_models)
                     /\ (response'.status = "success") <=>
                            /\ Len(response'.features) = ml_models.risk_model.n_features
                            /\ Len(response'.features) = ml_models.category_model.n_features
      ]_vars

\* analyze has served while the encoder was absent.
C26_Witness ==
    /\ response.op = "analyze"
    /\ response.status = "success"
    /\ BothModelsPresent
    /\ ml_models.risk_encoder = NoArtifact
    /\ ~MlTrained(ml_models)

----------------------------------------------------------------------------
\* C27

\* C27: no train, load, analyze or status step sets a populated slot entry
\* back to None, a /train or a load that fails included; so once risk_model
\* and category_model are both present they stay present and every later
\* analyze passes the model-presence check.  (A restart of the process is
\* not such a step: it begins again from the empty slot.)
C27_PopulatedEntriesStay ==
    [][phase' = "serving" =>
          /\ \A i \in 1..Len(ArtifactNames) :
                ml_models[ArtifactNames[i]] # NoArtifact =>
                    ml_models'[ArtifactNames[i]] # NoArtifact
          /\ BothModelsPresent =>
                /\ ml_models'.risk_model # NoArtifact
                /\ ml_models'.category_model # NoArtifact
                /\ AnalyzeAnswers => response'.message \notin ModelNotLoaded
      ]_vars

\* analyze has served from a populated slot after a later /train failed.
C27_Witness ==
    /\ response.op = "analyze"
    /\ response.status = "success"
    /\ \E t \in Threads, u \in Threads :
          /\ t < u
          /\ train_threads[t].pc \in {"published", "ok"}
          /\ train_threads[u].pc = "error"

----------------------------------------------------------------------------
\* C28

\* C28: the decoding analyze applies to a predicted class, index i to
\* ['Low', 'Medium', 'High'][i], undoes the encoding train_ml_models applies
\* to a row's label: decoding the encoded label gives the label back.
C28_DecodeUndoesEncode ==
    response.op = "train_ml_models" =>
        /\ response.y_risk \in 0..(Len(RiskLevels) - 1)
        /\ RiskLevels[response.y_risk + 1] = response.risk_level

\* The three labels have been encoded, High among them.
C28_Witness ==
    /\ response.op = "train_ml_models"
    /\ response.risk_level = "High"
    /\ response.y_risk = 2
    /\ \A i \in 1..Len(RiskLevels) : RiskLevels[EncodeRisk(RiskLevels[i]) + 1] = RiskLevels[i]

----------------------------------------------------------------------------
\* C29

\* The result of the call with the two partner sequences exchanged.
Swapped ==
    calculate_personalized_features_flask(call.questionnaire_responses,
                                          call.female_responses, call.male_responses)

SameNumber(a, b) == a[2] # 0 /\ b[2] # 0 /\ FEq(a, b)

\* C29: for non-empty partner sequences over {2,3,4}, exchanging the two
\* sequences leaves alignment_score, conflict_ratio, total_conflicts and
\* response_variance as they were and exchanges the two averages and the
\* two consistencies; the weight of a pair of answers does not depend on
\* which partner gave which.
C29_SwapSymmetry ==
    ValidPairCall =>
        /\ SameNumber(response.result.alignment_score, Swapped.alignment_score)
        /\ SameNumber(response.result.conflict_ratio, Swapped.conflict_ratio)
        /\ response.result.total_conflicts = Swapped.total_conflicts
        /\ SameNumber(response.result.response_variance, Swapped.response_variance)
        /\ SameNumber(response.result.male_avg_response, Swapped.female_avg_response)
        /\ SameNumber(response.result.female_avg_response, Swapped.male_avg_response)
        /\ SameNumber(response.result.male_consistency, Swapped.female_consistency)
        /\ SameNumber(response.result.female_consistency, Swapped.male_consistency)
        /\ \A i \in 1..Min2(Len(call.male_responses), Len(call.female_responses)) :
              ConflictWeight(call.male_responses[i], call.female_responses[i])
                  = ConflictWeight(call.female_responses[i], call.male_responses[i])

\* Sequences of different lengths with a neutral-against-disagree pair and
\* an agree-against-neutral pair, and unequal averages.
C29_Witness ==
    /\ ValidPairCall
    /\ Len(call.male_responses) # Len(call.female_responses)
    /\ Len(call.male_responses) >= 2 /\ Len(call.female_responses) >= 2
    /\ call.male_responses[1] = 3 /\ call.female_responses[1] = 2
    /\ call.male_responses[2] = 3 /\ call.female_responses[2] = 4
    /\ ~FEq(response.result.male_avg_response, response.result.female_avg_response)
    /\ ~FEq(response.result.male_consistency, response.result.female_consistency)

----------------------------------------------------------------------------
\* C30

\* C30: in generate_rule_based_recommendations male_positive_ratio,
\* female_positive_ratio and couple_optimism each lie in [0, 1] for all
\* partner sequences over {2,3,4}, of different lengths and with an empty
\* male sequence included.
C30_RatiosInUnitInterval ==
    response.op = "generate_rule_based_recommendations" =>
        /\ InUnitInterval(response.dynamics.male_positive_ratio)
        /\ InUnitInterval(response.dynamics.female_positive_ratio)
        /\ InUnitInterval(response.dynamics.couple_optimism)

====
